---- MODULE Spec2Model ----
(***************************************************************************)
(* A model of the CMDR-Kael-Bot storage and delivery core:                 *)
(*   - the pending-delivery queue            (src/session.ts)              *)
(*   - the Upstash KV adapter                (src/storage.upstash.ts)      *)
(*   - the TTL cache                         (src/cache.ts)                *)
(*   - the persona store and its command     (src/persona.ts, src/index.ts)*)
(*   - the memory store: start, forget, reads (src/memory.ts)              *)
(*   - the output chunker                    (src/utils/reply.ts)          *)
(*   - the health heartbeat                  (src/index.ts)                *)
(* Each subsystem has its own specification over its own variables; the    *)
(* variables of the other subsystems stay at their initial value.          *)
(* Strings of the chunker and of forget are sequences of one-character     *)
(* strings, so that length, slicing and searching are computed.            *)
(***************************************************************************)
EXTENDS Integers, Sequences, FiniteSets, TLC

VARIABLES
    now,          \* Date.now(), in milliseconds
    pending,      \* session.ts `store`: Map channelId -> {chunks, expires}
    sessLast,     \* the session call made in the last step: name, channel, result
    enq,          \* per channel: the chunk list of the last setPending
    popped,       \* per channel: what popNext returned since that setPending
    intact,       \* per channel: no expiry and no clearPending since it
                  \* (enq and popped are emptied when it becomes FALSE)
    kvConfigured, \* storage.upstash.ts: BASE and TOKEN are both set
    kvRemote,     \* the Upstash Redis data: key -> [val, exp]
    kvLast,       \* the adapter call made in the last step and its result
    memUseKV,     \* memory.ts `useKV`
    memDb,        \* memory.ts `db`: channelId -> Memory[] (file mode)
    memCall,      \* a forget in flight in KV mode, between its get and its put
                  \* (net: how the get's fetch ended), or loadMemoryDB on its way
    memLast,      \* the memory call that returned or threw in the last step; the
                  \* ret of a forget is "TRUE", "FALSE" or "threw"
    perUseKV,     \* persona.ts `useKV`
    perDb,        \* persona.ts `db`: channelId -> Persona (file mode)
    perTasks,     \* the fire-and-forget async blocks of setPersona and
                  \* resetPersona, and the getPersonaAsync calls, still running
                  \* (KV mode)
    perFile,      \* the content of the persona file
    race,         \* where followed: the persona write that reached Redis last
                  \* (a seed or a call's final write, and the call), and the
                  \* patches of the setPersona calls whose final write reached it
    perLast,      \* the persona read that returned or threw in the last step, or
                  \* the setPersona call that is followed since it started alone
    cacheUseKV,   \* cache.ts `useKV`
    cacheStore,   \* cache.ts `store`: key -> {until, data} (file mode)
    saveTimer,    \* cache.ts `saveTimer`: when the pending save fires, or NoTimer
    timers,       \* the save timers pending in the event loop, by the time
                  \* they are due
    cacheFile,    \* the content of the cache file on disk
    calls,        \* the cached() calls in flight, by slot
    cacheLast,    \* the cached() call that returned or threw in the last step
    lastStore,    \* per key: the value last computed and stored, and the start
                  \* time of that call plus its TTL
    lastFailed,   \* the keys whose last call to finish was one whose compute
                  \* function failed, with no other call in flight meanwhile
    solo,         \* what is followed of the call in flight while it is the only
                  \* one: what its start expected, and whether its requests succeeded
    herd,         \* where followed: since the cache last had no call in flight,
                  \* how many compute functions have completed (up to two),
                  \* the value of the last one, and whether every request
                  \* to Redis was answered with success
    chunkText,    \* the text handed to splitForDiscord, as a sequence of characters
    chunkMax,     \* its maxLen argument
    chunkOut,     \* what the call returned: the chunks, which of them flush()
                  \* closed with a fence, and which were pushed while the
                  \* buffer held text
    hb,           \* the heartbeat of index.ts: where the ready handler is, when
                  \* the client became ready, when the interval fires next, and
                  \* the writes issued and still in flight
    tool,         \* the data-tool call in flight or just ended (EDSM
                  \* cachedGet, INARA postJSON, EliteBGS getJSON), and the
                  \* CACHE map of each of the three modules
    env           \* process.env as the stores read it (the endpoint and the
                  \* credential of the remote backend are set or not), and
                  \* whether the ready handler has made its selections

sessVars == <<pending, sessLast, enq, popped, intact>>

kvVars == <<kvConfigured, kvRemote, kvLast>>

memVars == <<memUseKV, memDb, memCall, memLast>>

perVars == <<perUseKV, perDb, perTasks, perFile, perLast, race>>

cacheVars == <<cacheUseKV, cacheStore, saveTimer, timers, cacheFile, calls, cacheLast,
               lastStore, lastFailed, solo, herd>>

chunkVars == <<chunkText, chunkMax, chunkOut>>

hbVars == <<hb>>

envVars == <<env>>

toolVars == <<tool>>

vars == <<now, sessVars, kvVars, memVars, perVars, cacheVars, chunkVars, hbVars, envVars, toolVars>>

\* what the actions of one subsystem leave alone
nonSessVars == <<kvVars, memVars, perVars, cacheVars, chunkVars, hbVars, envVars, toolVars>>

nonKvVars == <<sessVars, memVars, perVars, cacheVars, chunkVars, hbVars, envVars, toolVars>>

nonMemVars == <<sessVars, perVars, cacheVars, chunkVars, hbVars, envVars, toolVars>>

nonPerVars == <<sessVars, memVars, cacheVars, chunkVars, hbVars, envVars, toolVars>>

nonCacheVars == <<sessVars, memVars, perVars, chunkVars, hbVars, envVars, toolVars>>

nonChunkVars == <<sessVars, kvVars, memVars, perVars, cacheVars, hbVars, envVars, toolVars>>

nonHbVars == <<sessVars, kvVars, memVars, perVars, cacheVars, chunkVars, envVars, toolVars>>

\* the environment of a process whose ready handler has run
EnvSettled == env = [url |-> kvConfigured, token |-> kvConfigured, pc |-> "ready"]

(***************************************************************************)
(* Shared helpers                                                          *)
(***************************************************************************)

\* JavaScript's null, as returned by popNext
Null == "<null>"

\* Map.delete: the map without key k
MapDelete(m, k) == [x \in (DOMAIN m) \ {k} |-> m[x]]

\* Map.set: the map with k bound to v
MapSet(m, k, v) == [x \in (DOMAIN m) \cup {k} |-> IF x = k THEN v ELSE m[x]]

\* All sequences over S of length at most n
SeqsUpTo(S, n) == UNION {[1..k -> S] : k \in 0..n}

(***************************************************************************)
(* Pending-delivery queue (src/session.ts)                                 *)
(***************************************************************************)

TTL_MS == 5 * 60 * 1000

Channels == {"c1", "c2"}

\* chunk texts handed to setPending; "" is the empty string
ChunkVals == {"", "a", "b"}

MaxChunks == 2

SessionTickMs == 300000

MaxNow == 600000

\* setPending(channelId, chunks)
setPending(st, c, chunks, t) == MapSet(st, c, [chunks |-> chunks, expires |-> t + TTL_MS])

\* hasPending(channelId): the store afterwards and the value returned
hasPending(st, c, t) ==
    IF c \notin DOMAIN st THEN [store |-> st, ret |-> FALSE]
    ELSE IF st[c].expires < t THEN [store |-> MapDelete(st, c), ret |-> FALSE]
    ELSE [store |-> st, ret |-> Len(st[c].chunks) > 0]

\* popNext that forgets to refresh the expiration on a non-exhausting pop
popNextNoRefresh(st, c, t) ==
    IF c \notin DOMAIN st \/ st[c].expires < t
    THEN [store |-> MapDelete(st, c), ret |-> Null]
    ELSE LET chunks == st[c].chunks
             shifted == IF chunks = <<>> THEN Null ELSE Head(chunks)
             rest == IF chunks = <<>> THEN <<>> ELSE Tail(chunks)
         IN  [store |-> IF rest = <<>> THEN MapDelete(st, c)
                        ELSE MapSet(st, c, [chunks |-> rest, expires |-> st[c].expires]),
              ret |-> IF shifted = "" THEN Null ELSE shifted]

\* popNext that takes the last chunk instead of the first
popNextFromEnd(st, c, t) ==
    IF c \notin DOMAIN st \/ st[c].expires < t
    THEN [store |-> MapDelete(st, c), ret |-> Null]
    ELSE LET chunks == st[c].chunks
             shifted == IF chunks = <<>> THEN Null ELSE chunks[Len(chunks)]
             rest == IF chunks = <<>> THEN <<>> ELSE SubSeq(chunks, 1, Len(chunks) - 1)
         IN  [store |-> IF rest = <<>> THEN MapDelete(st, c)
                        ELSE MapSet(st, c, [chunks |-> rest, expires |-> t + TTL_MS]),
              ret |-> IF shifted = "" THEN Null ELSE shifted]

\* popNext(channelId): the store afterwards and the value returned.
\* `p.chunks.shift() || null` yields null for an empty array and for "".
popNext(st, c, t) ==
    IF c \notin DOMAIN st \/ st[c].expires < t
    THEN [store |-> MapDelete(st, c), ret |-> Null]
    ELSE LET chunks == st[c].chunks
             shifted == IF chunks = <<>> THEN Null ELSE Head(chunks)
             rest == IF chunks = <<>> THEN <<>> ELSE Tail(chunks)
         IN  [store |-> IF rest = <<>> THEN MapDelete(st, c)
                        ELSE MapSet(st, c, [chunks |-> rest, expires |-> t + TTL_MS]),
              ret |-> IF shifted = "" THEN Null ELSE shifted]

\* clearPending(channelId)
clearPending(st, c) == MapDelete(st, c)

\* the entry of c exists and its expiration time has passed
Expired(st, c, t) == c \in DOMAIN st /\ st[c].expires < t

SessInit ==
    /\ pending = <<>>
    /\ sessLast = [op |-> "none", ch |-> "c1", ret |-> Null, expired |-> FALSE]
    /\ enq = [c \in Channels |-> <<>>]
    /\ popped = [c \in Channels |-> <<>>]
    /\ intact = [c \in Channels |-> FALSE]

SetPending(c, chunks) ==
    /\ pending' = setPending(pending, c, chunks, now)
    /\ sessLast' = [op |-> "setPending", ch |-> c, ret |-> Null, expired |-> FALSE]
    /\ enq' = [enq EXCEPT ![c] = chunks]
    /\ popped' = [popped EXCEPT ![c] = <<>>]
    /\ intact' = [intact EXCEPT ![c] = TRUE]
    /\ UNCHANGED now
    /\ UNCHANGED nonSessVars

HasPending(c) ==
    LET r == hasPending(pending, c, now) IN
    /\ pending' = r.store
    /\ sessLast' = [op |-> "hasPending", ch |-> c, ret |-> ToString(r.ret),
                    expired |-> Expired(pending, c, now)]
    /\ intact' = [intact EXCEPT ![c] = @ /\ ~Expired(pending, c, now)]
    /\ enq' = [enq EXCEPT ![c] = IF Expired(pending, c, now) THEN <<>> ELSE @]
    /\ popped' = [popped EXCEPT ![c] = IF Expired(pending, c, now) THEN <<>> ELSE @]
    /\ UNCHANGED now
    /\ UNCHANGED nonSessVars

PopNext(c) ==
    LET r == popNext(pending, c, now) IN
    /\ pending' = r.store
    /\ sessLast' = [op |-> "popNext", ch |-> c, ret |-> r.ret,
                    expired |-> Expired(pending, c, now)]
    /\ popped' = [popped EXCEPT ![c] =
                    IF Expired(pending, c, now) THEN <<>>
                    ELSE IF c \in DOMAIN pending THEN Append(@, r.ret) ELSE @]
    /\ enq' = [enq EXCEPT ![c] = IF Expired(pending, c, now) THEN <<>> ELSE @]
    /\ intact' = [intact EXCEPT ![c] = @ /\ ~Expired(pending, c, now)]
    /\ UNCHANGED now
    /\ UNCHANGED nonSessVars

ClearPending(c) ==
    /\ pending' = clearPending(pending, c)
    /\ sessLast' = [op |-> "clearPending", ch |-> c, ret |-> Null, expired |-> FALSE]
    /\ intact' = [intact EXCEPT ![c] = FALSE]
    /\ enq' = [enq EXCEPT ![c] = <<>>]
    /\ popped' = [popped EXCEPT ![c] = <<>>]
    /\ UNCHANGED now
    /\ UNCHANGED nonSessVars

SessionTick ==
    /\ now + SessionTickMs <= MaxNow
    /\ now' = now + SessionTickMs
    /\ sessLast' = [op |-> "none", ch |-> "c1", ret |-> Null, expired |-> FALSE]
    /\ UNCHANGED <<pending, enq, popped, intact>>
    /\ UNCHANGED nonSessVars

SessNext ==
    \/ \E c \in Channels, chunks \in SeqsUpTo(ChunkVals, MaxChunks) : SetPending(c, chunks)
    \/ \E c \in Channels : HasPending(c)
    \/ \E c \in Channels : PopNext(c)
    \/ \E c \in Channels : ClearPending(c)
    \/ SessionTick


(***************************************************************************)
(* Upstash KV adapter (src/storage.upstash.ts) and the Redis behind it     *)
(***************************************************************************)

\* what an async function without a return statement resolves to
Undefined == "<undefined>"

\* a key stored without EX never expires
NoExpiry == -1

KvKeys == {"k1", "k2"}

KvVals == {"v1", "v2"}

\* ttlSeconds arguments; 0 also stands for an omitted argument (both falsy)
MaxTtl == 2

KvTickMs == 1000

KvMaxNow == 3000

\* how a fetch() can end: a 2xx response, a non-2xx response, a rejection
NetOutcomes == {"ok", "http_error", "network_error"}

\* Redis: the key exists and has not expired at time t
RedisLive(remote, k, t) ==
    k \in DOMAIN remote /\ (remote[k].exp = NoExpiry \/ t < remote[k].exp)

\* Redis GET: the value, or null for an absent or expired key
RedisGet(remote, k, t) == IF RedisLive(remote, k, t) THEN remote[k].val ELSE Null

\* Redis SET key val [EX ttl]; `(ttlSeconds ? "?EX=" + ttlSeconds : "")`
RedisSet(remote, k, v, ttl, t) ==
    MapSet(remote, k, [val |-> v, exp |-> IF ttl = 0 THEN NoExpiry ELSE t + ttl * 1000])

\* Redis DEL
RedisDel(remote, k) == MapDelete(remote, k)

\* a get() that goes to the network whether or not the adapter is configured
kvGetUnguarded(conf, remote, k, t, net) ==
    IF net = "network_error"
    THEN [threw |-> TRUE, isNull |-> FALSE, ret |-> Undefined, fetched |-> TRUE]
    ELSE IF net = "http_error"
    THEN [threw |-> FALSE, isNull |-> TRUE, ret |-> Null, fetched |-> TRUE]
    ELSE [threw |-> FALSE, isNull |-> ~RedisLive(remote, k, t), ret |-> RedisGet(remote, k, t),
          fetched |-> TRUE]

\* kv.get(key): whether the promise rejected, whether it resolved to null, the
\* value it resolved to, and whether fetch() was called
kvGet(conf, remote, k, t, net) ==
    IF ~conf THEN [threw |-> FALSE, isNull |-> TRUE, ret |-> Null, fetched |-> FALSE]
    ELSE IF net = "network_error"
    THEN [threw |-> TRUE, isNull |-> FALSE, ret |-> Undefined, fetched |-> TRUE]
    ELSE IF net = "http_error"
    THEN [threw |-> FALSE, isNull |-> TRUE, ret |-> Null, fetched |-> TRUE]
    ELSE [threw |-> FALSE, isNull |-> ~RedisLive(remote, k, t), ret |-> RedisGet(remote, k, t),
          fetched |-> TRUE]

\* kv.set(key, val, ttlSeconds): the Redis data afterwards, the result,
\* and whether fetch() was called
kvSet(conf, remote, k, v, ttl, t, net) ==
    IF ~conf THEN [remote |-> remote, threw |-> FALSE, ret |-> Undefined, fetched |-> FALSE]
    ELSE IF net = "network_error" THEN [remote |-> remote, threw |-> TRUE, ret |-> Undefined,
          fetched |-> TRUE]
    ELSE IF net = "http_error" THEN [remote |-> remote, threw |-> FALSE, ret |-> Undefined,
          fetched |-> TRUE]
    ELSE [remote |-> RedisSet(remote, k, v, ttl, t), threw |-> FALSE, ret |-> Undefined,
          fetched |-> TRUE]

\* kv.del(key)
kvDel(conf, remote, k, net) ==
    IF ~conf THEN [remote |-> remote, threw |-> FALSE, ret |-> Undefined, fetched |-> FALSE]
    ELSE IF net = "network_error" THEN [remote |-> remote, threw |-> TRUE, ret |-> Undefined,
          fetched |-> TRUE]
    ELSE IF net = "http_error" THEN [remote |-> remote, threw |-> FALSE, ret |-> Undefined,
          fetched |-> TRUE]
    ELSE [remote |-> RedisDel(remote, k), threw |-> FALSE, ret |-> Undefined,
          fetched |-> TRUE]

KvIdle == [op |-> "none", key |-> "k1", net |-> "ok", live |-> FALSE,
           threw |-> FALSE, isNull |-> FALSE, ret |-> Undefined, fetched |-> FALSE]

KvInit ==
    /\ kvRemote = <<>>
    /\ kvLast = KvIdle

KvGet(k, net) ==
    LET r == kvGet(kvConfigured, kvRemote, k, now, net) IN
    /\ kvLast' = [op |-> "get", key |-> k, net |-> net, live |-> RedisLive(kvRemote, k, now),
                  threw |-> r.threw, isNull |-> r.isNull, ret |-> r.ret,
                  fetched |-> r.fetched]
    /\ UNCHANGED <<now, kvConfigured, kvRemote>>
    /\ UNCHANGED nonKvVars

KvSet(k, v, ttl, net) ==
    LET r == kvSet(kvConfigured, kvRemote, k, v, ttl, now, net) IN
    /\ kvRemote' = r.remote
    /\ kvLast' = [op |-> "set", key |-> k, net |-> net, live |-> RedisLive(kvRemote, k, now),
                  threw |-> r.threw, isNull |-> FALSE, ret |-> r.ret,
                  fetched |-> r.fetched]
    /\ UNCHANGED <<now, kvConfigured>>
    /\ UNCHANGED nonKvVars

KvDel(k, net) ==
    LET r == kvDel(kvConfigured, kvRemote, k, net) IN
    /\ kvRemote' = r.remote
    /\ kvLast' = [op |-> "del", key |-> k, net |-> net, live |-> RedisLive(kvRemote, k, now),
                  threw |-> r.threw, isNull |-> FALSE, ret |-> r.ret,
                  fetched |-> r.fetched]
    /\ UNCHANGED <<now, kvConfigured>>
    /\ UNCHANGED nonKvVars

KvTick ==
    /\ now + KvTickMs <= KvMaxNow
    /\ now' = now + KvTickMs
    /\ kvLast' = KvIdle
    /\ UNCHANGED <<kvConfigured, kvRemote>>
    /\ UNCHANGED nonKvVars

KvNext ==
    \/ \E k \in KvKeys, net \in NetOutcomes : KvGet(k, net)
    \/ \E k \in KvKeys, v \in KvVals, ttl \in 0..MaxTtl, net \in NetOutcomes : KvSet(k, v, ttl, net)
    \/ \E k \in KvKeys, net \in NetOutcomes : KvDel(k, net)
    \/ KvTick


(***************************************************************************)
(* Memory store (src/memory.ts).  Texts and specs are sequences of         *)
(* one-character strings.                                                  *)
(***************************************************************************)

\* the channels of the messages handled (remember and forget are called with
\* msg.channel.id; "global" only holds the seeds)
MemChannels == {"c1", "c2"}

\* texts handed to remember
MemTexts == {<<"a">>, <<"1", "A">>}

\* specs handed to forget: positions, texts, a text that starts with a digit,
\* a position out of range, a text that matches nothing
ForgetSpecs == {<<"1">>, <<"2">>, <<"9">>, <<"a">>, <<"A">>, <<"1", "a">>, <<"a", "1">>}

MaxMem == 2

\* memory.ts SEED, shortened to its ids and one-character texts
SEED == << [id |-> 1, text |-> <<"a">>, at |-> 0],
           [id |-> 2, text |-> <<"A", "1">>, at |-> 0] >>

Digits == {"0", "1", "2", "3", "4", "5", "6", "7", "8", "9"}

DigitVal(ch) ==
    CASE ch = "0" -> 0 [] ch = "1" -> 1 [] ch = "2" -> 2 [] ch = "3" -> 3
      [] ch = "4" -> 4 [] ch = "5" -> 5 [] ch = "6" -> 6 [] ch = "7" -> 7
      [] ch = "8" -> 8 [] ch = "9" -> 9

WhiteSpace == {" ", "\t", "\n"}

\* String.prototype.toLowerCase, per character
LowerChar(ch) == CASE ch = "A" -> "a" [] ch = "B" -> "b" [] OTHER -> ch

toLowerCase(str) == [i \in 1..Len(str) |-> LowerChar(str[i])]

\* String.prototype.includes
includes(str, sub) ==
    \E i \in 0..(Len(str) - Len(sub)) : SubSeq(str, i + 1, i + Len(sub)) = sub

\* the number of leading characters of str that are in S
RECURSIVE PrefixIn(_, _)
PrefixIn(str, S) ==
    IF str # <<>> /\ Head(str) \in S THEN 1 + PrefixIn(Tail(str), S) ELSE 0

\* the value of a digit string, base 10
RECURSIVE DecimalValue(_)
DecimalValue(ds) ==
    IF ds = <<>> THEN 0
    ELSE 10 * DecimalValue(SubSeq(ds, 1, Len(ds) - 1)) + DigitVal(ds[Len(ds)])

\* parseInt(str, 10): leading white space is skipped, a sign is read, then the
\* longest prefix of digits is the value; NaN when there is no digit
parseInt(str) ==
    LET s1 == SubSeq(str, PrefixIn(str, WhiteSpace) + 1, Len(str))
        neg == s1 # <<>> /\ Head(s1) = "-"
        s2 == IF s1 # <<>> /\ Head(s1) \in {"+", "-"} THEN Tail(s1) ELSE s1
        n == PrefixIn(s2, Digits)
        v == DecimalValue(SubSeq(s2, 1, n))
    IN  IF n = 0 THEN [nan |-> TRUE, val |-> 0]
        ELSE [nan |-> FALSE, val |-> IF neg THEN 0 - v ELSE v]

\* Array.prototype.findIndex for m => m.text.toLowerCase().includes(spec.toLowerCase());
\* positions are 1-based here and 0 means none (JavaScript: 0-based and -1)
findIndex(list, spec) ==
    LET hits == {i \in 1..Len(list) :
                    includes(toLowerCase(list[i].text), toLowerCase(spec))}
    IN  IF hits = {} THEN 0 ELSE CHOOSE i \in hits : \A j \in hits : i <= j

\* list.splice(i - 1, 1): the list without its i-th element (1-based)
splice(list, i) == SubSeq(list, 1, i - 1) \o SubSeq(list, i + 1, Len(list))

\* the body of forget on the list it read: the list to store (when one is
\* stored) and the value returned
forgetList(list, spec) ==
    IF Len(list) = 0 THEN [list |-> list, stored |-> FALSE, ret |-> FALSE]
    ELSE LET idx == parseInt(spec) IN
         IF ~idx.nan /\ idx.val >= 1 /\ idx.val <= Len(list)
         THEN [list |-> splice(list, idx.val), stored |-> TRUE, ret |-> TRUE]
         ELSE LET i == findIndex(list, spec) IN
              IF i >= 1
              THEN [list |-> splice(list, i), stored |-> TRUE, ret |-> TRUE]
              ELSE [list |-> list, stored |-> FALSE, ret |-> FALSE]

\* keyFor(channelId) of memory.ts
memKeyFor(c) == "mem:" \o c

\* db[channelId] || []
dbList(db, c) == IF c \in DOMAIN db THEN db[c] ELSE <<>>

\* the list stored for c in the backend in use
StoredList(c) ==
    IF memUseKV
    THEN IF RedisLive(kvRemote, memKeyFor(c), now) THEN kvRemote[memKeyFor(c)].val ELSE <<>>
    ELSE dbList(memDb, c)

MemIdle == [pc |-> "idle"]

MemNone == [op |-> "none"]

\* the state after loadMemoryDB on an empty store: the global seeds are written
MemInit ==
    /\ memDb = IF memUseKV THEN <<>> ELSE [c \in {"global"} |-> SEED]
    /\ memCall = MemIdle
    /\ memLast = MemNone

\* remember(channelId, text) in file mode
Remember(c, text) ==
    /\ ~memUseKV /\ memCall.pc = "idle"
    /\ Len(dbList(memDb, c)) < MaxMem
    /\ memDb' = MapSet(memDb, c, <<[id |-> now, text |-> text, at |-> now]>> \o dbList(memDb, c))
    /\ memLast' = MemNone
    /\ UNCHANGED <<now, memUseKV, memCall, kvVars>>
    /\ UNCHANGED nonMemVars

\* remember(channelId, text) in KV mode, with no other call in flight
RememberKV(c, text) ==
    /\ memUseKV /\ memCall.pc = "idle"
    /\ LET got == kvGet(kvConfigured, kvRemote, memKeyFor(c), now, "ok")
           list == IF got.isNull THEN <<>> ELSE got.ret
       IN  /\ Len(list) < MaxMem
           /\ kvRemote' = kvSet(kvConfigured, kvRemote, memKeyFor(c),
                                <<[id |-> now, text |-> text, at |-> now]>> \o list,
                                0, now, "ok").remote
    /\ memLast' = MemNone
    /\ UNCHANGED <<now, memUseKV, memDb, memCall, kvConfigured, kvLast>>
    /\ UNCHANGED nonMemVars

\* remember(channelId, text) in KV mode with any outcome of its two requests,
\* no other call in flight: kvGetList takes a null for an empty list, the
\* entry is put in front, and kvPutList writes the list back
RememberOutcome(c, text, getNet, putNet) ==
    /\ memUseKV /\ memCall.pc = "idle"
    /\ Len(StoredList(c)) < MaxMem
    /\ LET got == kvGet(kvConfigured, kvRemote, memKeyFor(c), now, getNet)
           list == IF got.isNull THEN <<>> ELSE got.ret
           entry == [id |-> now, text |-> text, at |-> now]
           put == kvSet(kvConfigured, kvRemote, memKeyFor(c), <<entry>> \o list, 0, now, putNet)
       IN  /\ kvRemote' = IF got.threw THEN kvRemote ELSE put.remote
           /\ memLast' = [op |-> "remember", ch |-> c, entry |-> entry, before |-> StoredList(c),
                          getNet |-> getNet, putNet |-> putNet,
                          threw |-> got.threw \/ put.threw]
    /\ UNCHANGED <<now, memUseKV, memDb, memCall, kvConfigured, kvLast>>
    /\ UNCHANGED nonMemVars

\* forget(channelId, spec) in file mode: no await on this path
Forget(c, spec) ==
    /\ ~memUseKV /\ memCall.pc = "idle"
    /\ LET list == dbList(memDb, c)
           r == forgetList(list, spec)
       IN  /\ memDb' = IF r.stored THEN MapSet(memDb, c, r.list) ELSE memDb
           /\ memLast' = [op |-> "forget", ch |-> c, spec |-> spec, before |-> list,
                          net |-> "ok", ret |-> ToString(r.ret)]
    /\ UNCHANGED <<now, memUseKV, memCall, kvVars>>
    /\ UNCHANGED nonMemVars

\* forget in KV mode, up to `await kvGetList(channelId)`
ForgetGet(c, spec, net) ==
    /\ memUseKV /\ memCall.pc = "idle"
    /\ LET got == kvGet(kvConfigured, kvRemote, memKeyFor(c), now, net) IN
       IF got.threw
       THEN /\ memCall' = MemIdle
            /\ memLast' = [op |-> "forget", ch |-> c, spec |-> spec, before |-> StoredList(c),
                           net |-> net, ret |-> "threw"]
       ELSE /\ memCall' = [pc |-> "got", ch |-> c, spec |-> spec,
                           list |-> IF got.isNull THEN <<>> ELSE got.ret,
                           before |-> StoredList(c), net |-> net]
            /\ memLast' = MemNone
    /\ UNCHANGED <<now, memUseKV, memDb, kvVars>>
    /\ UNCHANGED nonMemVars

\* forget in KV mode, from the list read to its return
ForgetPut(net) ==
    /\ memUseKV /\ memCall.pc = "got"
    /\ LET r == forgetList(memCall.list, memCall.spec)
           put == kvSet(kvConfigured, kvRemote, memKeyFor(memCall.ch), r.list, 0, now, net)
       IN  /\ kvRemote' = IF r.stored THEN put.remote ELSE kvRemote
           /\ memLast' = [op |-> "forget", ch |-> memCall.ch, spec |-> memCall.spec,
                          before |-> memCall.before,
                          net |-> IF memCall.net = "ok" THEN net ELSE memCall.net,
                          ret |-> IF r.stored /\ put.threw THEN "threw" ELSE ToString(r.ret)]
    /\ memCall' = MemIdle
    /\ UNCHANGED <<now, memUseKV, memDb, kvConfigured, kvLast>>
    /\ UNCHANGED nonMemVars

\* loadMemoryDB has not returned yet
Loading == memCall.pc \in {"boot", "loadSeed"}

\* the record of a loadMemoryDB call that ended: the store it found
LoadEnded(before, net, threw) ==
    [op |-> "loadMemoryDB", before |-> before, net |-> net, threw |-> threw]

\* loadMemoryDB in file mode: fileLoad(), then the seeds when db.global is
\* not a list or is empty, and fileSave()
LoadMemoryDB ==
    /\ ~memUseKV /\ memCall.pc = "boot"
    /\ memDb' = IF dbList(memDb, "global") = <<>> THEN MapSet(memDb, "global", SEED) ELSE memDb
    /\ memCall' = MemIdle
    /\ memLast' = LoadEnded(memDb, "ok", FALSE)
    /\ UNCHANGED <<now, memUseKV, kvVars>>
    /\ UNCHANGED nonMemVars

\* loadMemoryDB in KV mode, up to the end of `await kv.get(gKey)`: a list
\* with entries ends the call, a null or an empty list leads to the seeding
LoadGet(net) ==
    /\ memUseKV /\ memCall.pc = "boot"
    /\ LET got == kvGet(kvConfigured, kvRemote, memKeyFor("global"), now, net) IN
       IF got.threw
       THEN /\ memCall' = MemIdle
            /\ memLast' = LoadEnded(kvRemote, net, TRUE)
       ELSE IF got.isNull \/ got.ret = <<>>
       THEN /\ memCall' = [pc |-> "loadSeed", before |-> kvRemote, net |-> net]
            /\ memLast' = MemNone
       ELSE /\ memCall' = MemIdle
            /\ memLast' = LoadEnded(kvRemote, net, FALSE)
    /\ UNCHANGED <<now, memUseKV, memDb, kvVars>>
    /\ UNCHANGED nonMemVars

\* loadMemoryDB in KV mode: `await kv.set(gKey, JSON.stringify(SEED))`
LoadSeed(net) ==
    /\ memUseKV /\ memCall.pc = "loadSeed"
    /\ LET put == kvSet(kvConfigured, kvRemote, memKeyFor("global"), SEED, 0, now, net) IN
       /\ kvRemote' = put.remote
       /\ memLast' = LoadEnded(memCall.before,
                               IF memCall.net = "ok" THEN net ELSE memCall.net, put.threw)
    /\ memCall' = MemIdle
    /\ UNCHANGED <<now, memUseKV, memDb, kvConfigured, kvLast>>
    /\ UNCHANGED nonMemVars

\* the cap of listMemories and listMemoriesAsync: .slice(0, 50)
READ_CAP == 50

\* list.slice(0, end) for end >= 0
slice0(list, end) == SubSeq(list, 1, IF end < Len(list) THEN end ELSE Len(list))

\* the record of a memory read that ended, with the outcome of its request
\* ("ok" for a call that sent none)
MemRead(op, c, net, threw, ret) == [op |-> op, ch |-> c, net |-> net, threw |-> threw, ret |-> ret]

\* listMemories(channelId): throws in KV mode, else the head of db[channelId]
ListMemories(c) ==
    /\ ~Loading
    /\ memLast' = IF memUseKV
                  THEN MemRead("listMemories", c, "ok", TRUE, <<>>)
                  ELSE MemRead("listMemories", c, "ok", FALSE, slice0(dbList(memDb, c), READ_CAP))
    /\ UNCHANGED <<now, memUseKV, memDb, memCall, kvVars>>
    /\ UNCHANGED nonMemVars

\* listMemoriesAsync(channelId): in KV mode `await kvGetList(channelId)`, whose
\* kv.get may reject, and whose null is the empty list
ListMemoriesAsync(c, net) ==
    /\ ~Loading
    /\ memUseKV \/ net = "ok"
    /\ LET got == kvGet(kvConfigured, kvRemote, memKeyFor(c), now, net) IN
       memLast' = IF ~memUseKV
                  THEN MemRead("listMemoriesAsync", c, "ok", FALSE, slice0(dbList(memDb, c), READ_CAP))
                  ELSE IF got.threw THEN MemRead("listMemoriesAsync", c, net, TRUE, <<>>)
                  ELSE MemRead("listMemoriesAsync", c, net, FALSE,
                               slice0(IF got.isNull THEN <<>> ELSE got.ret, READ_CAP))
    /\ UNCHANGED <<now, memUseKV, memDb, memCall, kvVars>>
    /\ UNCHANGED nonMemVars

\* the bullet character that starts a line of the memory context
Bullet == "<bullet>"

\* list.sort((a, b) => b.at - a.at): a stable sort, latest first
sortByAtDesc(list) ==
    LET \* the place of entry i: after the later entries, and after the entries
        \* of its own time that precede it
        place(i) == 1 + Cardinality({j \in 1..Len(list) :
                            \/ list[j].at > list[i].at
                            \/ list[j].at = list[i].at /\ j < i})
    IN  [p \in 1..Len(list) |-> list[CHOOSE i \in 1..Len(list) : place(i) = p]]

\* ["MEMORY CONTEXT (recent)", ...lines].join("\n"), as the sequence of its
\* lines; the empty string is the empty sequence
contextText(entries) ==
    IF entries = <<>> THEN <<>>
    ELSE <<"MEMORY CONTEXT (recent)">> \o [i \in 1..Len(entries) |-> <<Bullet, " ">> \o entries[i].text]

\* memoryContext(channelId, max) for max >= 0: in KV mode the head of SEED,
\* else the head of db[channelId] || db.global || [], sorted latest first
memoryContext(useKV, db, c, max) ==
    IF useKV THEN contextText(slice0(SEED, max))
    ELSE LET list == slice0(IF c \in DOMAIN db THEN db[c]
                            ELSE IF "global" \in DOMAIN db THEN db["global"] ELSE <<>>, max)
         IN  contextText(slice0(sortByAtDesc(list), max))

\* memoryContext(channelId, max) called by the prompt builder
MemoryContext(c, max) ==
    /\ ~Loading
    /\ memLast' = [op |-> "memoryContext", ch |-> c, max |-> max, threw |-> FALSE,
                   ret |-> memoryContext(memUseKV, memDb, c, max)]
    /\ UNCHANGED <<now, memUseKV, memDb, memCall, kvVars>>
    /\ UNCHANGED nonMemVars

MemNext ==
    \/ \E c \in MemChannels, text \in MemTexts : Remember(c, text)
    \/ \E c \in MemChannels, text \in MemTexts : RememberKV(c, text)
    \/ \E c \in MemChannels, spec \in ForgetSpecs : Forget(c, spec)
    \/ \E c \in MemChannels, spec \in ForgetSpecs, net \in NetOutcomes : ForgetGet(c, spec, net)
    \/ \E net \in NetOutcomes : ForgetPut(net)

(***************************************************************************)
(* Persona store (src/persona.ts) and the persona command of the message   *)
(* handler (src/index.ts).  temperature is held in tenths (0.9 is 9).      *)
(***************************************************************************)

PerChannels == {"c1", "c2"}

\* persona.ts DEFAULT
DEFAULT ==
    [temperature |-> 9, humor |-> 4, snark |-> 7, formality |-> 3, verbosity |-> 6,
     drone |-> 7, tone |-> "acerbic", max_history |-> 10, darkness |-> 8, colloquial |-> 8]

\* the numeric sliders declared 0..10
Sliders == {"humor", "snark", "formality", "verbosity", "drone", "darkness", "colloquial"}

\* the keys the persona command accepts: the sliders and max_history
CommandKeys == Sliders \cup {"max_history"}

\* the keys and the one- or two-digit numbers typed in persona commands
TypedKeys == {"humor"}

TypedNumbers == {99}

TypedTones == {"gruff"}

\* patches handed to setPersona by a caller other than the persona command
DirectPatches == { [k \in {"humor"} |-> 11] }

MaxTasks == 2

\* {...current, ...patch}
merge(current, patch) ==
    [f \in (DOMAIN current) \cup (DOMAIN patch) |->
        IF f \in DOMAIN patch THEN patch[f] ELSE current[f]]

\* Math.max(0, Math.min(10, parseInt(sliderMatch[2], 10)))
commandValue(n) ==
    LET lo == IF n < 10 THEN n ELSE 10 IN IF lo > 0 THEN lo ELSE 0

\* keyFor(channelId) of persona.ts
perKeyFor(c) == "persona:" \o c

\* getPersona(channelId), file mode: db[channelId] || (db[channelId] = {...DEFAULT})
getPersona(db, c) ==
    IF c \in DOMAIN db THEN [db |-> db, ret |-> db[c]]
    ELSE [db |-> MapSet(db, c, DEFAULT), ret |-> DEFAULT]

\* fileSave(): the file content after JSON.stringify(db) is written
fileSave(db) == db

\* a setPersona that lays the patch over the defaults, not over the record
setPersonaFileOverDefault(db, c, patch) ==
    [db |-> MapSet(db, c, merge(DEFAULT, patch)), ret |-> merge(DEFAULT, patch)]

\* setPersona(channelId, patch), file mode: the db afterwards and the record returned
setPersonaFile(db, c, patch) ==
    LET current == getPersona(db, c).ret
        next == merge(current, patch)
    IN  [db |-> MapSet(db, c, next), ret |-> next]

\* resetPersona(channelId), file mode
resetPersonaFile(db, c) == [db |-> MapSet(db, c, DEFAULT), ret |-> DEFAULT]

PerNone == [op |-> "none"]

\* no write is followed
RaceOff == [on |-> FALSE]

\* the writes are followed and none has reached Redis yet
RaceOn ==
    [on |-> TRUE, puts |-> {}, lastOp |-> "none", resetLanded |-> FALSE,
     last |-> [kind |-> "none",
               task |-> [kind |-> "none", ch |-> "c1", patch |-> <<>>, pc |-> "none",
                         current |-> DEFAULT]]]

\* a write of task t is answered: noted when it reached Redis and was obeyed
landed(r, t, kind, net) ==
    IF r.on /\ net = "ok"
    THEN [on |-> TRUE, last |-> [kind |-> kind, task |-> t],
          puts |-> IF kind = "put" /\ t.kind = "set" THEN r.puts \cup {t.patch} ELSE r.puts,
          lastOp |-> r.lastOp, resetLanded |-> r.resetLanded \/ t.kind = "reset"]
    ELSE r

\* setPersona or resetPersona is invoked: noted as the operation invoked last
called(r, op) ==
    IF r.on THEN [r EXCEPT !.lastOp = op, !.resetLanded = @ /\ op # "reset"] ELSE r

\* the record of a read that ended, with the outcome of its last request
\* ("ok" for a call that sent none)
Read(op, c, net, threw, ret) == [op |-> op, ch |-> c, net |-> net, threw |-> threw, ret |-> ret]

\* the records the store currently holds, by channel: db, or the Redis entries
Current ==
    IF perUseKV
    THEN [c \in {x \in PerChannels : perKeyFor(x) \in DOMAIN kvRemote} |->
             kvRemote[perKeyFor(c)].val]
    ELSE perDb

\* what setPersona returns in KV mode: `return { ...DEFAULT, ...patch }`
optimistic(patch) == merge(DEFAULT, patch)

\* the record of a setPersona call that started with no other call in flight:
\* what it returned,
\* the value current for the channel on entry (the default when there is no
\* record), the records of the other channels on entry, and whether the
\* call's write has completed
Watch(c, patch, done) ==
    [op |-> "setPersona", ch |-> c, patch |-> patch, done |-> done,
     ret |-> IF perUseKV THEN optimistic(patch) ELSE setPersonaFile(perDb, c, patch).ret,
     before |-> IF c \in DOMAIN Current THEN Current[c] ELSE DEFAULT,
     others |-> [x \in (DOMAIN Current) \ {c} |-> Current[x]]]

\* setPersona(channelId, patch) as an action: in file mode the whole call, in
\* KV mode the start of its async block (which runs up to its first await)
setPersona(c, patch) ==
    /\ IF perUseKV
       THEN /\ Cardinality(perTasks) < MaxTasks
            /\ perTasks' = perTasks \cup {[kind |-> "set", ch |-> c, patch |-> patch,
                                           pc |-> "get", current |-> DEFAULT]}
            /\ UNCHANGED <<perDb, perFile>>
       ELSE /\ perDb' = setPersonaFile(perDb, c, patch).db
            /\ perFile' = fileSave(setPersonaFile(perDb, c, patch).db)
            /\ UNCHANGED perTasks
    /\ perLast' = IF perTasks = {} THEN Watch(c, patch, ~perUseKV) ELSE PerNone
    /\ race' = called(race, "set")
    /\ UNCHANGED <<now, perUseKV, kvVars>>
    /\ UNCHANGED nonPerVars

\* resetPersona(channelId)
resetPersona(c) ==
    /\ IF perUseKV
       THEN /\ Cardinality(perTasks) < MaxTasks
            /\ perTasks' = perTasks \cup {[kind |-> "reset", ch |-> c, patch |-> <<>>,
                                           pc |-> "put", current |-> DEFAULT]}
            /\ UNCHANGED <<perDb, perFile>>
       ELSE /\ perDb' = resetPersonaFile(perDb, c).db
            /\ perFile' = fileSave(resetPersonaFile(perDb, c).db)
            /\ UNCHANGED perTasks
    /\ perLast' = PerNone
    /\ race' = called(race, "reset")
    /\ UNCHANGED <<now, perUseKV, kvVars>>
    /\ UNCHANGED nonPerVars

PerInit ==
    /\ perDb = <<>>
    /\ perTasks = {}
    /\ perFile = <<>>
    /\ perLast = PerNone
    /\ race = RaceOff

\* a caller other than the persona command calls setPersona
SetPersona(c, patch) == setPersona(c, patch)

\* messageCreate: `persona <slider> <n>` from an admin
PersonaCommandSlider(c, key, n) ==
    /\ key \in CommandKeys
    /\ setPersona(c, [k \in {key} |-> commandValue(n)])

\* messageCreate: `persona tone <tone>` from an admin
PersonaCommandTone(c, tone) == setPersona(c, [k \in {"tone"} |-> tone])

\* messageCreate: `persona reset` from an admin
PersonaCommandReset(c) == resetPersona(c)

\* getPersona without its guard on useKV: line 107 alone, in both modes
GetPersonaUnguarded(c) ==
    /\ perLast' = Read("getPersona", c, "ok", FALSE, getPersona(perDb, c).ret)
    /\ perDb' = getPersona(perDb, c).db
    /\ UNCHANGED <<now, perUseKV, race, perTasks, perFile, kvVars>>
    /\ UNCHANGED nonPerVars

\* getPersona(channelId): throws in KV mode; in file mode a missing record is
\* created in db, and nothing is written to the file
GetPersona(c) ==
    /\ IF perUseKV
       THEN /\ perLast' = Read("getPersona", c, "ok", TRUE, DEFAULT)
            /\ UNCHANGED perDb
       ELSE /\ perLast' = Read("getPersona", c, "ok", FALSE, getPersona(perDb, c).ret)
            /\ perDb' = getPersona(perDb, c).db
    /\ UNCHANGED <<now, perUseKV, race, perTasks, perFile, kvVars>>
    /\ UNCHANGED nonPerVars

\* getPersonaAsync(channelId): in file mode it is getPersona; in KV mode it
\* runs up to `await kvGet(channelId)`
GetPersonaAsync(c) ==
    /\ IF perUseKV
       THEN /\ Cardinality(perTasks) < MaxTasks
            /\ perTasks' = perTasks \cup {[kind |-> "read", ch |-> c, patch |-> <<>>,
                                           pc |-> "get", current |-> DEFAULT]}
            /\ perLast' = PerNone
            /\ UNCHANGED perDb
       ELSE /\ perLast' = Read("getPersonaAsync", c, "ok", FALSE, getPersona(perDb, c).ret)
            /\ perDb' = getPersona(perDb, c).db
            /\ UNCHANGED perTasks
    /\ UNCHANGED <<now, perUseKV, race, perFile, kvVars>>
    /\ UNCHANGED nonPerVars

\* `await kvGet(channelId)` in getPersonaAsync settles: a record is returned
\* (to the caller, or to the async block of setPersona), a null leads to the
\* seeding of the default.  A rejection ends the call, and the block in its
\* .catch.
TaskGet(t, net) ==
    /\ t \in perTasks /\ t.pc = "get"
    /\ LET got == kvGet(kvConfigured, kvRemote, perKeyFor(t.ch), now, net) IN
       /\ perTasks' = (perTasks \ {t}) \cup
             (IF got.threw THEN {}
              ELSE IF got.isNull THEN {[t EXCEPT !.pc = "seed"]}
              ELSE IF t.kind = "read" THEN {}
              ELSE {[t EXCEPT !.pc = "put", !.current = got.ret]})
       /\ perLast' = IF t.kind = "set" /\ ~got.threw THEN perLast
                     ELSE IF t.kind # "read" \/ (~got.threw /\ got.isNull) THEN PerNone
                     ELSE IF got.threw THEN Read("getPersonaAsync", t.ch, net, TRUE, DEFAULT)
                     ELSE Read("getPersonaAsync", t.ch, net, FALSE, got.ret)
    /\ UNCHANGED <<now, perUseKV, race, perDb, perFile, kvVars>>
    /\ UNCHANGED nonPerVars

\* `await kvSet(channelId, {...DEFAULT})` in getPersonaAsync settles, and the
\* default is returned
TaskSeed(t, net) ==
    /\ t \in perTasks /\ t.pc = "seed"
    /\ LET put == kvSet(kvConfigured, kvRemote, perKeyFor(t.ch), DEFAULT, 0, now, net) IN
       /\ kvRemote' = put.remote
       /\ perTasks' = (perTasks \ {t}) \cup
             (IF put.threw \/ t.kind = "read" THEN {}
              ELSE {[t EXCEPT !.pc = "put", !.current = DEFAULT]})
       /\ perLast' = IF t.kind = "set" /\ ~put.threw THEN perLast
                     ELSE IF t.kind # "read" THEN PerNone
                     ELSE Read("getPersonaAsync", t.ch, net, put.threw, DEFAULT)
    /\ race' = landed(race, t, "seed", net)
    /\ UNCHANGED <<now, perUseKV, perDb, perFile, kvConfigured, kvLast>>
    /\ UNCHANGED nonPerVars

\* a last await that merges the patch into the record stored at that moment
TaskPutMerging(t, net) ==
    /\ t \in perTasks /\ t.pc = "put"
    /\ LET stored == IF perKeyFor(t.ch) \in DOMAIN kvRemote
                     THEN kvRemote[perKeyFor(t.ch)].val ELSE t.current
           next == IF t.kind = "reset" THEN DEFAULT ELSE merge(stored, t.patch) IN
       kvRemote' = kvSet(kvConfigured, kvRemote, perKeyFor(t.ch), next, 0, now, net).remote
    /\ perTasks' = perTasks \ {t}
    /\ perLast' = IF t.kind = "set" /\ perLast.op = "setPersona" /\ net = "ok"
                  THEN [perLast EXCEPT !.done = TRUE] ELSE PerNone
    /\ race' = landed(race, t, "put", net)
    /\ UNCHANGED <<now, perUseKV, perDb, perFile, kvConfigured, kvLast>>
    /\ UNCHANGED nonPerVars

\* the last await of either async block: `await kvSet(channelId, next)`
TaskPut(t, net) ==
    /\ t \in perTasks /\ t.pc = "put"
    /\ LET next == IF t.kind = "reset" THEN DEFAULT ELSE merge(t.current, t.patch) IN
       kvRemote' = kvSet(kvConfigured, kvRemote, perKeyFor(t.ch), next, 0, now, net).remote
    /\ perTasks' = perTasks \ {t}
    /\ perLast' = IF t.kind = "set" /\ perLast.op = "setPersona" /\ net = "ok"
                  THEN [perLast EXCEPT !.done = TRUE] ELSE PerNone
    /\ race' = landed(race, t, "put", net)
    /\ UNCHANGED <<now, perUseKV, perDb, perFile, kvConfigured, kvLast>>
    /\ UNCHANGED nonPerVars

\* the persona records stored at the moment, in the backend in use
StoredPersonas ==
    IF perUseKV
    THEN {kvRemote[perKeyFor(c)].val : c \in {x \in PerChannels : perKeyFor(x) \in DOMAIN kvRemote}}
    ELSE {perDb[c] : c \in DOMAIN perDb}

\* the persisted state of the backend in use: the Redis entries or the file
Persisted ==
    IF perUseKV
    THEN [c \in {x \in PerChannels : perKeyFor(x) \in DOMAIN kvRemote} |->
             kvRemote[perKeyFor(c)].val]
    ELSE perFile

PerNext ==
    \/ \E c \in PerChannels, patch \in DirectPatches : SetPersona(c, patch)
    \/ \E c \in PerChannels, key \in TypedKeys, n \in TypedNumbers : PersonaCommandSlider(c, key, n)
    \/ \E c \in PerChannels, tone \in TypedTones : PersonaCommandTone(c, tone)
    \/ \E c \in PerChannels : PersonaCommandReset(c)
    \/ \E t \in perTasks, net \in NetOutcomes : TaskGet(t, net)
    \/ \E t \in perTasks, net \in NetOutcomes : TaskSeed(t, net)
    \/ \E t \in perTasks, net \in NetOutcomes : TaskPut(t, net)

\* the callers of the store's API other than the persona command: reads,
\* patches and resets, and the awaits of the calls in flight
PerApiNext ==
    \/ \E c \in PerChannels, patch \in DirectPatches : SetPersona(c, patch)
    \/ \E c \in PerChannels : PersonaCommandReset(c)
    \/ \E c \in PerChannels : GetPersona(c)
    \/ \E c \in PerChannels : GetPersonaAsync(c)
    \/ \E t \in perTasks, net \in NetOutcomes : TaskGet(t, net)
    \/ \E t \in perTasks, net \in NetOutcomes : TaskSeed(t, net)
    \/ \E t \in perTasks, net \in NetOutcomes : TaskPut(t, net)

(***************************************************************************)
(* TTL cache (src/cache.ts)                                                *)
(***************************************************************************)

SAVE_DEBOUNCE_MS == 400

\* saveTimer = null
NoTimer == -1

CacheKeys == {"k1"}

\* what a compute function can resolve to
CacheVals == {"v1", "v2"}

\* ttlSeconds arguments of cached()
CacheMaxTtl == 1

\* the slots of the cached() calls in flight
CallIds == {1, 2}

CacheTickMs == 1000

CacheMaxNow == 1000

\* a string held in Redis or in a file: whether it is well-formed JSON text,
\* and the value it is the text of
JSONstringify(v) == [json |-> TRUE, val |-> v]

\* JSON.parse(raw): throws a SyntaxError for text that is not JSON
JSONparse(raw) == [threw |-> ~raw.json, val |-> IF raw.json THEN raw.val ELSE Undefined]

\* a payload that is not JSON, written by something other than this program
Garbage == [json |-> FALSE, val |-> "<garbage>"]

\* `cache:${key}`
cacheKeyFor(k) == "cache:" \o k

\* the file-mode lookup: `hit && hit.until > now`
isHit(st, k, t) == k \in DOMAIN st /\ st[k].until > t

\* a store that keeps the record a key already has
storeEntryIfAbsent(st, k, start, ttl, data) ==
    IF k \in DOMAIN st THEN st
    ELSE MapSet(st, k, [until |-> start + ttl * 1000, data |-> data])

\* the store after `store[key] = { until: now + ttlSeconds * 1000, data }`
storeEntry(st, k, start, ttl, data) ==
    MapSet(st, k, [until |-> start + ttl * 1000, data |-> data])

\* a cached() that keeps the failure of its compute function as the entry
rejectedPoisons(st, k, start, ttl) == storeEntry(st, k, start, ttl, "<error>")

\* the store after `await fn()` rejected: the assignment is never reached
rejected(st, k, start, ttl) == st

\* a scheduleSave that sets its timer without clearing the one before
scheduleSaveNoClear(handle, pendingTimers, t) ==
    [handle |-> t + SAVE_DEBOUNCE_MS,
     pending |-> pendingTimers \cup {t + SAVE_DEBOUNCE_MS}]

\* scheduleSave() in file mode: `if (saveTimer) clearTimeout(saveTimer)`, then
\* a timer of SAVE_DEBOUNCE_MS is set and its handle kept in saveTimer
scheduleSave(handle, pendingTimers, t) ==
    [handle |-> t + SAVE_DEBOUNCE_MS,
     pending |-> (pendingTimers \ {handle}) \cup {t + SAVE_DEBOUNCE_MS}]

CallIdle == [pc |-> "idle"]

CacheNone == [op |-> "none"]

SoloNone == [on |-> FALSE]

\* the overlapping calls are not followed
HerdOff == [on |-> FALSE]

\* they are followed, and no compute function has completed yet
HerdOn == [on |-> TRUE, n |-> 0, last |-> Null, ok |-> TRUE]

\* a request to Redis is answered
heard(h, net) == IF h.on THEN [h EXCEPT !.ok = @ /\ net = "ok"] ELSE h

AllIdle == \A i \in DOMAIN calls : calls[i].pc = "idle"

\* what the freshness claim expects of a call for k starting now
Expectation(k) ==
    IF k \notin DOMAIN lastStore THEN [kind |-> "none", val |-> Null]
    ELSE IF now < lastStore[k].until THEN [kind |-> "hit", val |-> lastStore[k].val]
    ELSE [kind |-> "miss", val |-> Null]

\* a call for k starts: it is followed as long as no other call is in flight
SoloStart(k) ==
    IF AllIdle
    THEN [on |-> TRUE, expect |-> Expectation(k), afterFailure |-> k \in lastFailed,
          netOk |-> TRUE]
    ELSE SoloNone

SoloNet(net) == IF solo.on THEN [solo EXCEPT !.netOk = @ /\ net = "ok"] ELSE solo

\* the record of a call that ended
Ended(k, so, outcome, why, ret, invoked) ==
    [op |-> "cached", key |-> k, outcome |-> outcome, why |-> why, ret |-> ret,
     invoked |-> invoked, solo |-> so]

CacheInit ==
    /\ cacheStore = <<>>
    /\ saveTimer = NoTimer
    /\ timers = {}
    /\ cacheFile = <<>>
    /\ calls = [i \in CallIds |-> CallIdle]
    /\ cacheLast = CacheNone
    /\ lastStore = <<>>
    /\ lastFailed = {}
    /\ solo = SoloNone
    /\ herd = HerdOff

\* cached(key, ttlSeconds, fn) is called: in KV mode up to `await kv.get`, in
\* file mode up to the return of a hit or to `await fn()`
CachedStart(i, k, ttl) ==
    /\ calls[i].pc = "idle"
    /\ \A j \in CallIds : j < i => calls[j].pc # "idle"
    /\ IF ~cacheUseKV /\ isHit(cacheStore, k, now)
       THEN /\ cacheLast' = Ended(k, SoloStart(k), "returned", "hit", cacheStore[k].data, 0)
            /\ solo' = SoloNone
            /\ UNCHANGED calls
       ELSE /\ calls' = [calls EXCEPT ![i] =
                            [pc |-> IF cacheUseKV THEN "get" ELSE "compute",
                             key |-> k, ttl |-> ttl, start |-> now, val |-> Null]]
            /\ solo' = SoloStart(k)
            /\ cacheLast' = CacheNone
    /\ herd' = IF herd.on /\ AllIdle THEN HerdOn ELSE herd
    /\ UNCHANGED <<now, cacheUseKV, cacheStore, saveTimer, timers, cacheFile, lastStore, lastFailed, kvVars>>
    /\ UNCHANGED nonCacheVars

\* KV mode: `await kv.get(namespaced)` settles, and a payload is parsed
CachedGot(i, net) ==
    /\ calls[i].pc = "get"
    /\ LET f == calls[i]
           got == kvGet(kvConfigured, kvRemote, cacheKeyFor(f.key), now, net)
       IN  IF got.threw
           THEN /\ calls' = [calls EXCEPT ![i] = CallIdle]
                /\ cacheLast' = Ended(f.key, SoloNet(net), "threw", "kv_failed", Null, 0)
                /\ solo' = SoloNone
           ELSE IF ~got.isNull /\ JSONparse(got.ret).threw
           THEN /\ calls' = [calls EXCEPT ![i] = CallIdle]
                /\ cacheLast' = Ended(f.key, SoloNet(net), "threw", "parse_failed", Null, 0)
                /\ solo' = SoloNone
           ELSE IF ~got.isNull
           THEN /\ calls' = [calls EXCEPT ![i] = CallIdle]
                /\ cacheLast' = Ended(f.key, SoloNet(net), "returned", "hit",
                                      JSONparse(got.ret).val, 0)
                /\ solo' = SoloNone
           ELSE /\ calls' = [calls EXCEPT ![i] = [f EXCEPT !.pc = "compute"]]
                /\ cacheLast' = CacheNone
                /\ solo' = SoloNet(net)
    /\ herd' = heard(herd, net)
    /\ UNCHANGED <<now, cacheUseKV, cacheStore, saveTimer, timers, cacheFile, lastStore, lastFailed, kvVars>>
    /\ UNCHANGED nonCacheVars

\* `await fn()` resolves to v: in file mode the entry is stored, the save is
\* scheduled and v is returned; in KV mode the call goes on to `await kv.set`
Computed(i, v) ==
    /\ calls[i].pc = "compute"
    /\ LET f == calls[i] IN
       IF cacheUseKV
       THEN /\ calls' = [calls EXCEPT ![i] = [f EXCEPT !.pc = "set", !.val = v]]
            /\ cacheLast' = CacheNone
            /\ UNCHANGED <<cacheStore, saveTimer, timers, lastStore, lastFailed, solo>>
       ELSE /\ calls' = [calls EXCEPT ![i] = CallIdle]
            /\ cacheStore' = storeEntry(cacheStore, f.key, f.start, f.ttl, v)
            /\ saveTimer' = scheduleSave(saveTimer, timers, now).handle
            /\ timers' = scheduleSave(saveTimer, timers, now).pending
            /\ cacheLast' = Ended(f.key, solo, "returned", "computed", v, 1)
            /\ lastStore' = MapSet(lastStore, f.key, [until |-> f.start + f.ttl * 1000, val |-> v])
            /\ lastFailed' = lastFailed \ {f.key}
            /\ solo' = SoloNone
    /\ herd' = IF herd.on
               THEN [herd EXCEPT !.n = IF @ < 2 THEN @ + 1 ELSE @, !.last = v]
               ELSE herd
    /\ UNCHANGED <<now, cacheUseKV, cacheFile, kvVars>>
    /\ UNCHANGED nonCacheVars

\* `await fn()` rejects: cached() rejects with the same failure
ComputeFailed(i) ==
    /\ calls[i].pc = "compute"
    /\ LET f == calls[i] IN
       /\ calls' = [calls EXCEPT ![i] = CallIdle]
       /\ cacheStore' = IF cacheUseKV THEN cacheStore
                        ELSE rejected(cacheStore, f.key, f.start, f.ttl)
       /\ cacheLast' = Ended(f.key, solo, "threw", "compute_failed", Null, 1)
       /\ lastFailed' = IF solo.on /\ solo.netOk THEN lastFailed \cup {f.key}
                        ELSE lastFailed \ {f.key}
       /\ solo' = SoloNone
    /\ UNCHANGED <<now, cacheUseKV, herd, saveTimer, timers, cacheFile, lastStore, kvVars>>
    /\ UNCHANGED nonCacheVars

\* KV mode: `await kv.set(namespaced, JSON.stringify(val), ttlSeconds)` settles
CachedSet(i, net) ==
    /\ calls[i].pc = "set"
    /\ LET f == calls[i]
           put == kvSet(kvConfigured, kvRemote, cacheKeyFor(f.key), JSONstringify(f.val),
                        f.ttl, now, net)
       IN  /\ kvRemote' = put.remote
           /\ calls' = [calls EXCEPT ![i] = CallIdle]
           /\ cacheLast' = IF put.threw
                           THEN Ended(f.key, SoloNet(net), "threw", "kv_failed", Null, 1)
                           ELSE Ended(f.key, SoloNet(net), "returned", "computed", f.val, 1)
           /\ lastStore' = IF net = "ok"
                           THEN MapSet(lastStore, f.key,
                                       [until |-> f.start + f.ttl * 1000, val |-> f.val])
                           ELSE lastStore
           /\ lastFailed' = lastFailed \ {f.key}
           /\ solo' = SoloNone
    /\ herd' = heard(herd, net)
    /\ UNCHANGED <<now, cacheUseKV, cacheStore, saveTimer, timers, cacheFile, kvConfigured, kvLast>>
    /\ UNCHANGED nonCacheVars

\* clearCache(): a no-op in KV mode
ClearCache ==
    /\ IF cacheUseKV
       THEN UNCHANGED <<cacheStore, saveTimer, timers, lastStore>>
       ELSE /\ cacheStore' = <<>>
            /\ saveTimer' = scheduleSave(saveTimer, timers, now).handle
            /\ timers' = scheduleSave(saveTimer, timers, now).pending
            /\ lastStore' = <<>>
    /\ cacheLast' = CacheNone
    /\ UNCHANGED <<now, cacheUseKV, herd, cacheFile, calls, lastFailed, solo, kvVars>>
    /\ UNCHANGED nonCacheVars

\* the save timer fires: the whole store is written to the file, unless the
\* write fails, which is caught and logged
SaveFires(written) ==
    /\ \E t \in timers :
          /\ t <= now
          /\ timers' = timers \ {t}
          /\ saveTimer' = IF saveTimer = t THEN NoTimer ELSE saveTimer
    /\ cacheFile' = IF written THEN cacheStore ELSE cacheFile
    /\ cacheLast' = CacheNone
    /\ UNCHANGED <<now, cacheUseKV, herd, cacheStore, calls, lastStore, lastFailed, solo, kvVars>>
    /\ UNCHANGED nonCacheVars

\* time passes, up to the next whole second or to the moment the save timer
\* is due
CacheTick ==
    /\ \A t \in timers : t > now
    /\ LET next == (now \div CacheTickMs + 1) * CacheTickMs
       IN  /\ next <= CacheMaxNow
           /\ now' = IF \E t \in timers : t < next
                     THEN CHOOSE t \in timers : \A u \in timers : t <= u
                     ELSE next
    /\ cacheLast' = CacheNone
    /\ UNCHANGED <<cacheUseKV, herd, cacheStore, saveTimer, timers, cacheFile, calls, lastStore, lastFailed, solo, kvVars>>
    /\ UNCHANGED nonCacheVars

\* the step of the clock that follows the save timer
FlushTickMs == 150

FlushMaxNow == 900

\* time passes by FlushTickMs, or up to the moment a save timer is due
FlushTick ==
    /\ \A t \in timers : t > now
    /\ LET next == now + FlushTickMs
       IN  /\ next <= FlushMaxNow
           /\ now' = IF \E t \in timers : t < next
                     THEN CHOOSE t \in timers : \A u \in timers : t <= u
                     ELSE next
    /\ cacheLast' = CacheNone
    /\ UNCHANGED <<cacheUseKV, herd, cacheStore, saveTimer, timers, cacheFile, calls, lastStore, lastFailed, solo, kvVars>>
    /\ UNCHANGED nonCacheVars

\* the keys of the calls that fill the store between two saves
FlushKeys == {"k1", "k2"}

\* the file-backed cache: misses, clearCache, the save timer and the clock
FlushNext ==
    \/ \E k \in FlushKeys : CachedStart(1, k, 1)
    \/ \E v \in CacheVals : Computed(1, v)
    \/ ClearCache
    \/ \E written \in BOOLEAN : SaveFires(written)
    \/ FlushTick

CacheNext ==
    \/ \E i \in CallIds, k \in CacheKeys, ttl \in 0..CacheMaxTtl : CachedStart(i, k, ttl)
    \/ \E i \in CallIds, net \in NetOutcomes : CachedGot(i, net)
    \/ \E i \in CallIds, v \in CacheVals : Computed(i, v)
    \/ \E i \in CallIds : ComputeFailed(i)
    \/ \E i \in CallIds, net \in NetOutcomes : CachedSet(i, net)
    \/ ClearCache
    \/ \E written \in BOOLEAN : SaveFires(written)
    \/ CacheTick

(***************************************************************************)
(* Reply chunker (src/utils/reply.ts)                                      *)
(***************************************************************************)

\* the backtick character
Backtick == "<backtick>"

\* the pieces the input texts are built from: letters, a full stop, a space,
\* a newline and a code fence
TextPieces == {<<"a">>, <<"b">>, <<".">>, <<" ">>, <<"\n">>, <<Backtick, Backtick, Backtick>>}

MaxPieces == 5

MaxLimit == 4

\* the texts of up to n pieces
RECURSIVE TextsOf(_)
TextsOf(n) ==
    IF n = 0 THEN {<<>>}
    ELSE LET shorter == TextsOf(n - 1)
         IN  shorter \cup {t \o p : t \in shorter, p \in TextPieces}

\* str.slice(from) and str.slice(0, to), with from and to counted as in JS
sliceFrom(str, from) == SubSeq(str, from + 1, Len(str))

sliceTo(str, to) == SubSeq(str, 1, IF to < Len(str) THEN to ELSE Len(str))

\* the first position from i on that holds no character of S
RECURSIVE RunEnd(_, _, _)
RunEnd(str, i, S) ==
    IF i <= Len(str) /\ str[i] \in S THEN RunEnd(str, i + 1, S) ELSE i

\* str.split(re) from position i on: cur is the part being read and acc the
\* parts before it
RECURSIVE splitParagraphs(_, _, _, _)
splitParagraphs(str, i, cur, acc) ==
    IF i > Len(str) THEN Append(acc, cur)
    ELSE IF str[i] = "\n" /\ i < Len(str) /\ str[i + 1] = "\n"
    THEN splitParagraphs(str, RunEnd(str, i, {"\n"}), <<>>, Append(acc, cur))
    ELSE splitParagraphs(str, i + 1, Append(cur, str[i]), acc)

\* text.split(/\n{2,}/)
paragraphsOf(str) == splitParagraphs(str, 1, <<>>, <<>>)

RECURSIVE splitLines(_, _, _, _)
splitLines(str, i, cur, acc) ==
    IF i > Len(str) THEN Append(acc, cur)
    ELSE IF str[i] = "\n" THEN splitLines(str, i + 1, <<>>, Append(acc, cur))
    ELSE splitLines(str, i + 1, Append(cur, str[i]), acc)

\* piece.split(/\n/)
linesOf(str) == splitLines(str, 1, <<>>, <<>>)

SentenceEnd == {".", "!", "?"}

RECURSIVE splitSentences(_, _, _, _)
splitSentences(str, i, cur, acc) ==
    IF i > Len(str) THEN Append(acc, cur)
    ELSE IF i > 1 /\ str[i - 1] \in SentenceEnd /\ str[i] \in WhiteSpace
    THEN splitSentences(str, RunEnd(str, i, WhiteSpace), <<>>, Append(acc, cur))
    ELSE splitSentences(str, i + 1, Append(cur, str[i]), acc)

\* ln.split(/(?<=[\.!?])\s+/)
sentencesOf(str) == splitSentences(str, 1, <<>>, <<>>)

\* (buffer.match(/```/g) || []).length
RECURSIVE fenceCount(_)
fenceCount(str) ==
    IF Len(str) < 3 THEN 0
    ELSE IF str[1] = Backtick /\ str[2] = Backtick /\ str[3] = Backtick
    THEN 1 + fenceCount(sliceFrom(str, 3))
    ELSE fenceCount(Tail(str))

ParagraphBreak == <<"\n", "\n">>

\* "\n```"
ClosingFence == <<"\n", Backtick, Backtick, Backtick>>

\* chunks.push(c) outside flush(); `held` notes the chunks pushed this way
\* while the buffer held text
push(st, c) ==
    [st EXCEPT !.chunks = Append(@, c),
               !.held = IF st.buffer # <<>> THEN @ \cup {Len(st.chunks) + 1} ELSE @]

\* flush()
flush(st) ==
    IF st.buffer = <<>> THEN st
    ELSE IF fenceCount(st.buffer) % 2 # 0
    THEN [chunks |-> Append(st.chunks, st.buffer \o ClosingFence), buffer |-> <<>>,
          fenced |-> st.fenced \cup {Len(st.chunks) + 1}, held |-> st.held]
    ELSE [chunks |-> Append(st.chunks, st.buffer), buffer |-> <<>>, fenced |-> st.fenced,
          held |-> st.held]

\* `buffer ? buffer + "\n\n" + piece : piece`
joined(buffer, piece) == IF buffer # <<>> THEN buffer \o ParagraphBreak \o piece ELSE piece

\* `buffer ? buffer.length + 2 : 0`
headroomOf(buffer) == IF buffer # <<>> THEN Len(buffer) + 2 ELSE 0

\* `if (cand.length <= maxLen) buffer = cand; else { flush(); buffer = part; }`
keep(st, part, maxLen) ==
    IF Len(joined(st.buffer, part)) <= maxLen
    THEN [st EXCEPT !.buffer = joined(st.buffer, part)]
    ELSE [flush(st) EXCEPT !.buffer = part]

\* `if (buffer) { buffer += "\n\n" + part; flush(); } else chunks.push(part.slice(0, maxLen));`
emit(st, part, maxLen) ==
    IF st.buffer # <<>> THEN flush([st EXCEPT !.buffer = @ \o ParagraphBreak \o part])
    ELSE push(st, sliceTo(part, maxLen))

\* the hard cut: `while (rest.length > maxLen) { chunks.push(...); rest = ... }`
RECURSIVE hardCut(_, _, _)
hardCut(st, rest, maxLen) ==
    IF Len(rest) > maxLen
    THEN hardCut(push(st, sliceTo(rest, maxLen)), sliceFrom(rest, maxLen), maxLen)
    ELSE [st |-> st, sent |-> rest]

\* the loop over the sentences of a line, from the i-th on
RECURSIVE sentenceLoop(_, _, _, _, _)
sentenceLoop(st, sent, pieces, i, maxLen) ==
    IF i > Len(pieces) THEN [st |-> st, sent |-> sent]
    ELSE LET s == pieces[i]
             sTmp == IF sent # <<>> THEN sent \o <<" ">> \o s ELSE s
         IN  IF headroomOf(st.buffer) + Len(sTmp) <= maxLen
             THEN sentenceLoop(st, sTmp, pieces, i + 1, maxLen)
             ELSE IF sent # <<>>
             THEN sentenceLoop(emit(st, sent, maxLen), s, pieces, i + 1, maxLen)
             ELSE LET cut == hardCut(st, s, maxLen)
                  IN  sentenceLoop(cut.st, cut.sent, pieces, i + 1, maxLen)

\* a line that does not fit and has no block before it: split by sentences
bySentences(st, ln, maxLen) ==
    LET r == sentenceLoop(st, <<>>, sentencesOf(ln), 1, maxLen)
    IN  IF r.sent # <<>> THEN keep(r.st, r.sent, maxLen) ELSE r.st

\* the loop over the lines of a paragraph, from the i-th on
RECURSIVE lineLoop(_, _, _, _, _)
lineLoop(st, block, lines, i, maxLen) ==
    IF i > Len(lines) THEN [st |-> st, block |-> block]
    ELSE LET ln == lines[i]
             tmp == IF block # <<>> THEN block \o <<"\n">> \o ln ELSE ln
         IN  IF headroomOf(st.buffer) + Len(tmp) <= maxLen
             THEN lineLoop(st, tmp, lines, i + 1, maxLen)
             ELSE IF block # <<>>
             THEN lineLoop(emit(st, block, maxLen), ln, lines, i + 1, maxLen)
             ELSE lineLoop(bySentences(st, ln, maxLen), <<>>, lines, i + 1, maxLen)

\* safeAppend(piece)
safeAppend(st, piece, maxLen) ==
    IF Len(joined(st.buffer, piece)) <= maxLen
    THEN [st EXCEPT !.buffer = joined(st.buffer, piece)]
    ELSE LET r == lineLoop(st, <<>>, linesOf(piece), 1, maxLen)
         IN  IF r.block # <<>> THEN keep(r.st, r.block, maxLen) ELSE r.st

\* `for (const piece of paragraphs) safeAppend(piece);`
RECURSIVE paragraphLoop(_, _, _, _)
paragraphLoop(st, paragraphs, i, maxLen) ==
    IF i > Len(paragraphs) THEN st
    ELSE paragraphLoop(safeAppend(st, paragraphs[i], maxLen), paragraphs, i + 1, maxLen)

\* splitForDiscord(text, maxLen): the chunks, and the positions of those that
\* flush() closed with a fence
\* splitForDiscord without the early return of line 5
splitForDiscordAlways(str, maxLen) ==
    IF str = <<>> THEN [chunks |-> <<>>, fenced |-> {}, held |-> {}]
    ELSE LET st == flush(paragraphLoop([chunks |-> <<>>, buffer |-> <<>>, fenced |-> {}, held |-> {}],
                                       paragraphsOf(str), 1, maxLen))
         IN  [chunks |-> st.chunks, fenced |-> st.fenced, held |-> st.held]

splitForDiscord(str, maxLen) ==
    IF str = <<>> THEN [chunks |-> <<>>, fenced |-> {}, held |-> {}]
    ELSE IF Len(str) <= maxLen THEN [chunks |-> <<str>>, fenced |-> {}, held |-> {}]
    ELSE LET st == flush(paragraphLoop([chunks |-> <<>>, buffer |-> <<>>, fenced |-> {}, held |-> {}],
                                       paragraphsOf(str), 1, maxLen))
         IN  [chunks |-> st.chunks, fenced |-> st.fenced, held |-> st.held]

NotSplit == [done |-> FALSE]

ChunkInit ==
    /\ chunkText = <<>>
    /\ chunkMax = 1
    /\ chunkOut = NotSplit

\* splitForDiscord(text, maxLen) is called and returns
SplitForDiscord ==
    /\ ~chunkOut.done
    /\ LET r == splitForDiscord(chunkText, chunkMax)
       IN  chunkOut' = [done |-> TRUE, chunks |-> r.chunks, fenced |-> r.fenced,
                        held |-> r.held]
    /\ UNCHANGED <<now, chunkText, chunkMax>>
    /\ UNCHANGED nonChunkVars

ChunkNext == SplitForDiscord

(***************************************************************************)
(* Health heartbeat (src/index.ts)                                         *)
(***************************************************************************)

\* the period handed to setInterval
HEARTBEAT_MS == 30000

\* isStale(ts, maxAgeMs = 120_000) of the status server
STALE_MS == 120000

HbTickMs == 10000

HbMaxNow == 150000

HEARTBEAT_KEY == "health:heartbeat"

HbNone == [op |-> "none"]

\* the process before the client is ready; prompt: every heartbeat write so
\* far got a 2xx answer in no time; lenient: the endpoint obeys a SET whose
\* EX it cannot read and drops the option (Upstash refuses such a SET)
HbStart ==
    [pc |-> "starting", readyAt |-> 0, timer |-> NoTimer, issued |-> 0, inFlight |-> {},
     last |-> HbNone, probe |-> HbNone, prompt |-> TRUE, lenient |-> FALSE]

HbInit == hb = HbStart

\* what the heartbeat and the status server leave alone besides Redis
hbFrame == <<sessVars, kvConfigured, kvLast, memVars, perVars, cacheVars, chunkVars, envVars, toolVars>>

\* the payload of writeHeartbeat() called at time t with the client ready
\* (bot, userId and hostname are left out)
payloadAt(t) == [ts |-> t, ready |-> TRUE]

\* kv.set(key, val, { ex: 120 }): with an object for ttlSeconds the path ends
\* in "?EX=[object Object]"; Redis refuses a SET whose EX is not an integer,
\* so a request that gets through is answered with an error status
kvSetObjectTtl(conf, remote, k, v, t, net) ==
    kvSet(conf, remote, k, v, 0, t, IF net = "ok" /\ ~hb.lenient THEN "http_error" ELSE net)

\* writeHeartbeat() without its try/catch
writeHeartbeatUncaught(conf, remote, ts, t, net) ==
    LET put == kvSetObjectTtl(conf, remote, HEARTBEAT_KEY, JSONstringify(payloadAt(ts)), t, net)
    IN  [remote |-> put.remote, threw |-> put.threw]

\* writeHeartbeat() for the payload built at ts, its kv.set ending at t: the
\* Redis data afterwards; a rejection of kv.set is caught and logged
writeHeartbeat(conf, remote, ts, t, net) ==
    LET put == kvSetObjectTtl(conf, remote, HEARTBEAT_KEY, JSONstringify(payloadAt(ts)), t, net)
    IN  [remote |-> put.remote, threw |-> FALSE]

\* the record of a writeHeartbeat() call that ended
HbEnded(net, threw) == [op |-> "writeHeartbeat", net |-> net, threw |-> threw]

\* client.once("ready"): the loads, then writeHeartbeat() is called and the
\* handler waits for it
Ready ==
    /\ hb.pc = "starting"
    /\ hb' = [hb EXCEPT !.pc = "first", !.readyAt = now, !.issued = 1, !.inFlight = {now},
                        !.last = HbNone, !.probe = HbNone]
    /\ UNCHANGED <<now, kvRemote>>
    /\ UNCHANGED hbFrame

\* `await writeHeartbeat()` ends and setInterval(..., 30_000) is called; were
\* writeHeartbeat to reject, the async ready handler would reject with it and
\* the unhandled rejection would end the process
FirstSettles(net) ==
    /\ hb.pc = "first"
    /\ \E ts \in hb.inFlight :
          LET w == writeHeartbeat(kvConfigured, kvRemote, ts, now, net) IN
          /\ kvRemote' = w.remote
          /\ hb' = IF w.threw
                   THEN [hb EXCEPT !.pc = "crashed", !.inFlight = {}, !.last = HbEnded(net, TRUE),
                                   !.probe = HbNone]
                   ELSE [hb EXCEPT !.pc = "ticking", !.inFlight = @ \ {ts},
                                   !.timer = now + HEARTBEAT_MS, !.last = HbEnded(net, FALSE),
                                   !.probe = HbNone, !.prompt = @ /\ net = "ok"]
    /\ UNCHANGED now
    /\ UNCHANGED hbFrame

\* the interval fires: writeHeartbeat() is called and not awaited
IntervalFires ==
    /\ hb.pc = "ticking" /\ hb.timer = now
    /\ hb' = [hb EXCEPT !.issued = @ + 1, !.inFlight = @ \cup {now}, !.timer = now + HEARTBEAT_MS,
                        !.last = HbNone, !.probe = HbNone]
    /\ UNCHANGED <<now, kvRemote>>
    /\ UNCHANGED hbFrame

\* the kv.set of a heartbeat issued by the interval ends, in any way; the
\* interval's callback has a .catch of its own
WriteSettles(net) ==
    /\ hb.pc = "ticking"
    /\ \E ts \in hb.inFlight :
          LET w == writeHeartbeat(kvConfigured, kvRemote, ts, now, net) IN
          /\ kvRemote' = w.remote
          /\ hb' = [hb EXCEPT !.inFlight = @ \ {ts}, !.last = HbEnded(net, w.threw),
                              !.probe = HbNone, !.prompt = @ /\ net = "ok"]
    /\ UNCHANGED now
    /\ UNCHANGED hbFrame

\* isStale(ts) at time t: no timestamp (null, or 0), or one older than 120 s
isStale(hasTs, ts, t) == IF ~hasTs \/ ts = 0 THEN TRUE ELSE t - ts > STALE_MS

\* the answer of the status server to a request made at t: upstashGet, the
\* parse, and the body
statusOf(conf, remote, t, net) ==
    LET got == kvGet(conf, remote, HEARTBEAT_KEY, t, net)
        parsed == ~got.threw /\ ~got.isNull /\ ~JSONparse(got.ret).threw
        heartbeat == JSONparse(got.ret).val
        ts == IF parsed THEN heartbeat.ts ELSE 0
        stale == isStale(parsed, ts, t)
        ok == (parsed /\ heartbeat.ready) /\ ~stale
    IN  IF got.threw
        THEN [op |-> "status", net |-> net, code |-> 500, ok |-> FALSE, stale |-> TRUE,
              hasLast |-> FALSE, last_heartbeat |-> 0]
        ELSE [op |-> "status", net |-> net, code |-> IF ok THEN 200 ELSE 503, ok |-> ok,
              stale |-> stale, hasLast |-> ts # 0, last_heartbeat |-> ts]

\* a request to the status server is answered
Status(net) ==
    /\ hb' = [hb EXCEPT !.probe = statusOf(kvConfigured, kvRemote, now, net), !.last = HbNone]
    /\ UNCHANGED <<now, kvRemote>>
    /\ UNCHANGED hbFrame

\* time passes, up to the moment the interval fires next
HbTick ==
    /\ now < HbMaxNow
    /\ hb.timer = NoTimer \/ now < hb.timer
    /\ now' = LET to == IF now + HbTickMs < HbMaxNow THEN now + HbTickMs ELSE HbMaxNow
              IN  IF hb.timer # NoTimer /\ hb.timer < to THEN hb.timer ELSE to
    /\ hb' = [hb EXCEPT !.last = HbNone, !.probe = HbNone, !.prompt = @ /\ hb.inFlight = {}]
    /\ UNCHANGED kvRemote
    /\ UNCHANGED hbFrame

HbNext ==
    \/ Ready
    \/ \E net \in NetOutcomes : FirstSettles(net)
    \/ IntervalFires
    \/ \E net \in NetOutcomes : WriteSettles(net)
    \/ \E net \in NetOutcomes : Status(net)
    \/ HbTick

\* the heartbeat next to the handling of messages, which starts with
\* hasPending(msg.channel.id)
HbLiveNext ==
    \/ Ready
    \/ \E net \in NetOutcomes : FirstSettles(net)
    \/ IntervalFires
    \/ \E net \in NetOutcomes : WriteSettles(net)
    \/ HbTick
    \/ \E c \in Channels : HasPending(c)

(***************************************************************************)
(* Data tools (src/tools/edsm.ts, src/tools/inara.ts,                      *)
(* src/tools/elitebgs.ts): the request with its cache and its retry        *)
(***************************************************************************)

nonToolVars == <<sessVars, kvVars, memVars, perVars, cacheVars, chunkVars, hbVars, envVars>>

ToolApis == {"edsm", "inara", "ebgs"}

\* the answers of a data service
ToolVals == {"r1", "r2"}

\* the default of the `retries` parameter
RETRIES == 1

\* sleep(150 + Math.random() * 250)
BACKOFF_MIN_MS == 150

BACKOFF_SPAN_MS == 250

\* what Math.random() * 250 gives, rounded down: from 0 to just below 250
BackoffDraws == {0, 125, BACKOFF_SPAN_MS - 1}

ToolMaxNow == 700

\* the TTL of each module's CACHE: EDSM_TTL_MS, INARA_TTL_MS, EBG_TTL_MS
toolTtl(api) == IF api = "edsm" THEN 120000 ELSE 60000

\* the key under which a request is cached, or none: cacheKey(path, params)
\* and k(path, params) always give one, INARA's keyFor only when every event
\* is one of the read-like events isCacheable lists
isCacheable(api, readLike) == api # "inara" \/ readLike

\* `hit && now - hit.t < TTL`
toolHit(cache, api, t) == "q" \in DOMAIN cache[api] /\ t - cache[api]["q"].t < toolTtl(api)

\* a catch that gives up after the first failure
attemptFailedNoRetry(i, retries) == "throw"

\* the catch of the retry loop: `if (i === retries) throw e;`, else the sleep
attemptFailed(i, retries) == IF i = retries THEN "throw" ELSE "sleep"

ToolIdle ==
    [pc |-> "idle", api |-> "edsm", readLike |-> TRUE, start |-> 0, i |-> 0, attempts |-> 0,
     slept |-> 0, out |-> "none", ret |-> Null, wrote |-> FALSE]

\* pdf.ts after import: `chunks = []`, `loaded = false`, `loadedAt = 0`, with
\* BGS_PDF_URL set; no call yet, no load has failed, none has succeeded
PdfUnloaded ==
    [url |-> TRUE, chunks |-> {}, loaded |-> FALSE, loadedAt |-> 0, pc |-> "idle",
     last |-> [op |-> "none"], since |-> NoTimer, good |-> {}]

\* no network call is followed
ReqIdle == [pc |-> "idle", kind |-> "edsm", start |-> 0, armed |-> NoTimer, out |-> "none"]

\* no call has been made, the three caches are empty
NoTool ==
    [call |-> ToolIdle, hasKey |-> TRUE, cache |-> [a \in ToolApis |-> <<>>], req |-> ReqIdle,
     pdf |-> PdfUnloaded]

ToolInit == tool = NoTool

\* cachedGet / postJSON / getJSON is called: INARA throws without its API
\* key, a fresh entry is returned, and otherwise the loop starts
ToolCall(api, readLike) ==
    /\ tool.call.pc = "idle"
    /\ LET c == [ToolIdle EXCEPT !.api = api, !.readLike = readLike, !.start = now] IN
       tool' = [tool EXCEPT !.call =
                   IF api = "inara" /\ ~tool.hasKey THEN [c EXCEPT !.out = "threw"]
                   ELSE IF isCacheable(api, readLike) /\ toolHit(tool.cache, api, now)
                   THEN [c EXCEPT !.out = "returned", !.ret = tool.cache[api]["q"].v]
                   ELSE [c EXCEPT !.pc = "fetch"]]
    /\ UNCHANGED now
    /\ UNCHANGED nonToolVars

\* the fetch of the attempt settles: a 2xx answer with a JSON body is cached
\* under the key, if there is one, and returned
ToolSucceeds(v) ==
    /\ tool.call.pc = "fetch"
    /\ LET c == tool.call
           keyed == isCacheable(c.api, c.readLike)
       IN  tool' = [tool EXCEPT
                       !.call = [c EXCEPT !.pc = "idle", !.attempts = @ + 1, !.out = "returned",
                                          !.ret = v, !.wrote = keyed],
                       !.cache = IF keyed
                                 THEN [@ EXCEPT ![c.api] = [k \in {"q"} |-> [t |-> c.start, v |-> v]]]
                                 ELSE @]
    /\ UNCHANGED now
    /\ UNCHANGED nonToolVars

\* the attempt fails (a non-2xx answer, a rejected fetch, the timeout's abort,
\* a body that is no JSON): the failure is thrown after the last attempt
ToolFails ==
    /\ tool.call.pc = "fetch"
    /\ LET c == tool.call IN
       tool' = [tool EXCEPT !.call =
                   IF attemptFailed(c.i, RETRIES) = "throw"
                   THEN [c EXCEPT !.pc = "idle", !.attempts = @ + 1, !.out = "threw"]
                   ELSE [c EXCEPT !.pc = "sleep", !.attempts = @ + 1]]
    /\ UNCHANGED now
    /\ UNCHANGED nonToolVars

\* `await sleep(150 + Math.random() * 250)`, then the next turn of the loop
ToolBackoff(draw) ==
    /\ tool.call.pc = "sleep"
    /\ now + BACKOFF_MIN_MS + draw <= ToolMaxNow
    /\ now' = now + BACKOFF_MIN_MS + draw
    /\ tool' = [tool EXCEPT !.call = [@ EXCEPT !.pc = "fetch", !.i = @ + 1,
                                              !.slept = BACKOFF_MIN_MS + draw]]
    /\ UNCHANGED nonToolVars

ToolNext ==
    \/ \E api \in ToolApis, readLike \in BOOLEAN : ToolCall(api, readLike)
    \/ \E v \in ToolVals : ToolSucceeds(v)
    \/ ToolFails
    \/ \E draw \in BackoffDraws : ToolBackoff(draw)

(***************************************************************************)
(* Network calls and their timeout (src/tools/edsm.ts, inara.ts,           *)
(* elitebgs.ts, pdf.ts, src/storage.upstash.ts)                            *)
(***************************************************************************)

\* HTTP_TIMEOUT_MS, by default
TIMEOUT == 30000

ReqTickMs == 10000

ReqMaxNow == 60000

\* the calls of the KV adapter, and all network calls
KvKinds == {"kvget", "kvset", "kvdel"}

ReqKinds == {"edsm", "inara", "ebgs", "pdf"} \cup KvKinds

\* `setTimeout(() => controller.abort(), TIMEOUT)` before the fetch: the
\* data tools and loadPDF arm it, the adapter passes no signal to fetch
armedAt(kind, t) == IF kind \in KvKinds THEN NoTimer ELSE t + TIMEOUT

\* the timer while the body is read: EDSM's getJSON returns res.json()
\* without awaiting it, so its finally clears the timer first; the adapter's
\* get reads the body with no timer; the others await the body inside the try
armedForBody(kind, armed) == IF kind = "edsm" THEN NoTimer ELSE armed

\* whether the body is read after a 2xx answer: set and del only await fetch
readsBody(kind) == kind \notin {"kvset", "kvdel"}

ReqPending == tool.req.pc \in {"headers", "body"}

\* fetch() is called
NetCall(kind) ==
    /\ tool.req.pc \in {"idle", "done"}
    /\ tool' = [tool EXCEPT !.req = [pc |-> "headers", kind |-> kind, start |-> now,
                                    armed |-> armedAt(kind, now), out |-> "none"]]
    /\ UNCHANGED now
    /\ UNCHANGED nonToolVars

\* the response arrives: a non-2xx status ends the call (thrown by the tools
\* and loadPDF, null from the adapter's get, nothing from set and del), a 2xx
\* one leads to the reading of the body
HeadersArrive(okStatus) ==
    /\ tool.req.pc = "headers"
    /\ LET r == tool.req IN
       tool' = [tool EXCEPT !.req =
                   IF okStatus /\ readsBody(r.kind)
                   THEN [r EXCEPT !.pc = "body", !.armed = armedForBody(r.kind, r.armed)]
                   ELSE [r EXCEPT !.pc = "done", !.armed = NoTimer,
                                  !.out = IF r.kind \in KvKinds \/ okStatus THEN "ok" ELSE "failed"]]
    /\ UNCHANGED now
    /\ UNCHANGED nonToolVars

\* the body has been read: JSON, a PDF, or something that does not parse
BodyArrives(valid) ==
    /\ tool.req.pc = "body"
    /\ tool' = [tool EXCEPT !.req = [@ EXCEPT !.pc = "done", !.armed = NoTimer,
                                              !.out = IF valid THEN "ok" ELSE "failed"]]
    /\ UNCHANGED now
    /\ UNCHANGED nonToolVars

\* the connection fails
NetError ==
    /\ ReqPending
    /\ tool' = [tool EXCEPT !.req = [@ EXCEPT !.pc = "done", !.armed = NoTimer, !.out = "failed"]]
    /\ UNCHANGED now
    /\ UNCHANGED nonToolVars

\* the timer fires: controller.abort() rejects the fetch or the body read
Abort ==
    /\ ReqPending /\ tool.req.armed # NoTimer /\ tool.req.armed <= now
    /\ tool' = [tool EXCEPT !.req = [@ EXCEPT !.pc = "done", !.armed = NoTimer, !.out = "aborted"]]
    /\ UNCHANGED now
    /\ UNCHANGED nonToolVars

\* time passes while the network is silent, up to the moment the timer is due
ReqTick ==
    /\ now < ReqMaxNow
    /\ tool.req.armed = NoTimer \/ now < tool.req.armed
    /\ now' = LET to == IF now + ReqTickMs < ReqMaxNow THEN now + ReqTickMs ELSE ReqMaxNow
              IN  IF tool.req.armed # NoTimer /\ tool.req.armed < to THEN tool.req.armed ELSE to
    /\ UNCHANGED tool
    /\ UNCHANGED nonToolVars

ReqNext ==
    \/ \E kind \in ReqKinds : NetCall(kind)
    \/ \E okStatus \in BOOLEAN : HeadersArrive(okStatus)
    \/ \E valid \in BOOLEAN : BodyArrives(valid)
    \/ NetError
    \/ Abort
    \/ ReqTick

(***************************************************************************)
(* The PDF loader (src/tools/pdf.ts)                                       *)
(***************************************************************************)

\* PDF_TTL_MS, by default: 6 h
PDF_TTL == 21600000

\* Date.now() when the process starts, counted from an origin more than the
\* TTL before it (as 1970 is)
PdfEpoch == 100000000

PdfTickMs == 7200000

PdfMaxNow == 136000000

\* the paragraphs a PDF may give
PdfContents == {{"p1"}, {"p1", "p2"}}

\* `const fresh = loaded && Date.now() - loadedAt < TTL`
fresh(pdf, t) == pdf.loaded /\ t - pdf.loadedAt < PDF_TTL

\* loadPDF(force) up to its fetch: nothing to do without a URL or while the
\* load is fresh and not forced
LoadPDF(force) ==
    /\ tool.pdf.pc = "idle"
    /\ LET pdf == tool.pdf IN
       tool' = [tool EXCEPT !.pdf =
                   IF ~pdf.url
                   THEN [pdf EXCEPT !.loaded = TRUE,
                                    !.last = [op |-> "loadPDF", force |-> force, at |-> now,
                                              fetched |-> FALSE]]
                   ELSE IF fresh(pdf, now) /\ ~force
                   THEN [pdf EXCEPT !.last = [op |-> "loadPDF", force |-> force, at |-> now,
                                              fetched |-> FALSE]]
                   ELSE [pdf EXCEPT !.pc = "fetch",
                                    !.last = [op |-> "loadPDF", force |-> force, at |-> now,
                                              fetched |-> TRUE]]]
    /\ UNCHANGED now
    /\ UNCHANGED nonToolVars

\* the fetch and the parse succeed: the chunks are replaced and stamped
PdfLoaded(content) ==
    /\ tool.pdf.pc = "fetch"
    /\ tool' = [tool EXCEPT !.pdf = [@ EXCEPT !.pc = "idle", !.chunks = content, !.loaded = TRUE,
                                              !.loadedAt = now, !.since = NoTimer,
                                              !.good = content]]
    /\ UNCHANGED now
    /\ UNCHANGED nonToolVars

\* the fetch or the parse fails, or the timer aborts: the catch empties the
\* chunks if nothing was loaded before, and sets loaded
PdfFailed ==
    /\ tool.pdf.pc = "fetch"
    /\ LET pdf == tool.pdf IN
       tool' = [tool EXCEPT !.pdf = [pdf EXCEPT !.pc = "idle",
                                                !.chunks = IF ~pdf.loaded THEN {} ELSE pdf.chunks,
                                                !.loaded = TRUE, !.since = now]]
    /\ UNCHANGED now
    /\ UNCHANGED nonToolVars

\* time passes
PdfTick ==
    /\ now + PdfTickMs <= PdfMaxNow
    /\ now' = now + PdfTickMs
    /\ UNCHANGED tool
    /\ UNCHANGED nonToolVars

PdfNext ==
    \/ \E force \in BOOLEAN : LoadPDF(force)
    \/ \E content \in PdfContents : PdfLoaded(content)
    \/ PdfFailed
    \/ PdfTick

(***************************************************************************)
(* Start-up (src/index.ts, the ready handler) and the backend selection of *)
(* the three stores                                                        *)
(***************************************************************************)

\* the test all three stores make on process.env:
\* UPSTASH_REDIS_REST_URL && UPSTASH_REDIS_REST_TOKEN
hasRemote(e) == e.url /\ e.token

\* a selection made on the endpoint alone
initCacheUrlOnly(e, file) == [useKV |-> e.url, store |-> IF e.url THEN <<>> ELSE file]

\* initCache(path): KV when both are set, else the file is loaded into `store`
initCache(e, file) ==
    [useKV |-> hasRemote(e), store |-> IF hasRemote(e) THEN <<>> ELSE file]

\* loadPersonaDB(): KV when both are set, else fileLoad()
loadPersonaDB(e, file) ==
    [useKV |-> hasRemote(e), db |-> IF hasRemote(e) THEN <<>> ELSE file]

\* loadMemoryDB() up to its first await: KV when both are set (the seeding
\* follows in LoadGet and LoadSeed); else fileLoad(), the seeds when
\* db.global is empty, and the call is over
loadMemoryDB(e, file) ==
    [useKV |-> hasRemote(e),
     db |-> IF hasRemote(e) THEN <<>>
            ELSE IF dbList(file, "global") = <<>> THEN MapSet(file, "global", SEED) ELSE file,
     call |-> IF hasRemote(e) THEN [pc |-> "boot"] ELSE MemIdle]

\* what the memory file can hold when the process starts
MemFiles == {<<>>, [c \in {"global"} |-> SEED]}

\* what the persona file can hold when the process starts
PersonaFiles == {<<>>, [c \in {"c1"} |-> DEFAULT]}

\* client.once("ready"): `await initCache(CACHE_PATH)`, which suspends on no
\* I/O, then loadPersonaDB() and loadMemoryDB(), both called without await:
\* the three selections are made before the handler first yields to the
\* event loop, at `await kv.get` in loadMemoryDB or at `await loadPDF()`
ClientReady(memFile) ==
    /\ env.pc = "start"
    /\ env' = [env EXCEPT !.pc = "ready"]
    /\ LET c == initCache(env, cacheFile)
           p == loadPersonaDB(env, perFile)
           m == loadMemoryDB(env, memFile)
       IN  /\ cacheUseKV' = c.useKV /\ cacheStore' = c.store
           /\ perUseKV' = p.useKV /\ perDb' = p.db
           /\ memUseKV' = m.useKV /\ memDb' = m.db /\ memCall' = m.call
    /\ UNCHANGED <<now, sessVars, kvVars, memLast, perTasks, perFile, perLast, race, saveTimer, timers, herd,
                   cacheFile, calls, cacheLast, lastStore, lastFailed, solo, chunkVars, hbVars, toolVars>>

\* the ready handler has made its selections: discord.js emits no
\* messageCreate before ready, so no store operation runs before this
Started == env.pc = "ready"

\* the ready handler, then the store operations that the message handler runs
StartupNext ==
    \/ \E memFile \in MemFiles : ClientReady(memFile)
    \/ Started /\ \E net \in NetOutcomes : LoadGet(net)
    \/ Started /\ \E net \in NetOutcomes : LoadSeed(net)
    \/ Started /\ Remember("c1", <<"a">>)
    \/ Started /\ RememberKV("c1", <<"a">>)
    \/ Started /\ \E patch \in DirectPatches : SetPersona("c1", patch)
    \/ Started /\ \E t \in perTasks, net \in NetOutcomes : TaskGet(t, net)
    \/ Started /\ \E t \in perTasks, net \in NetOutcomes : TaskSeed(t, net)
    \/ Started /\ \E t \in perTasks, net \in NetOutcomes : TaskPut(t, net)
    \/ Started /\ \E k \in CacheKeys : CachedStart(1, k, 1)
    \/ Started /\ \E net \in NetOutcomes : CachedGot(1, net)
    \/ Started /\ \E v \in CacheVals : Computed(1, v)
    \/ Started /\ \E net \in NetOutcomes : CachedSet(1, net)
    \/ Started /\ ClearCache

\* the process runs: it is ready, or its shutdown handler waits for
\* client.destroy()
Alive == env.pc \in {"ready", "stopping"}

\* SIGTERM or SIGINT: gracefulShutdown() runs up to `await client.destroy()`
GracefulShutdown ==
    /\ env.pc = "ready"
    /\ env' = [env EXCEPT !.pc = "stopping"]
    /\ UNCHANGED <<now, sessVars, kvVars, memVars, perVars, cacheVars, chunkVars, hbVars, toolVars>>

\* client.destroy() has settled either way and process.exit(0) is called: the
\* timers still pending are dropped with the process
ProcessExit ==
    /\ env.pc = "stopping"
    /\ env' = [env EXCEPT !.pc = "exited"]
    /\ timers' = {}
    /\ saveTimer' = NoTimer
    /\ UNCHANGED <<now, sessVars, kvVars, memVars, perVars, chunkVars, hbVars, toolVars>>
    /\ UNCHANGED <<cacheUseKV, cacheStore, cacheFile, calls, cacheLast, lastStore, lastFailed, solo, herd>>

\* the file-backed cache of a process that is told to stop at any moment;
\* client.destroy() takes any time, and what is in flight goes on meanwhile
ShutdownNext ==
    \/ \E k \in FlushKeys : Started /\ CachedStart(1, k, 1)
    \/ \E v \in CacheVals : Alive /\ Computed(1, v)
    \/ \E written \in BOOLEAN : Alive /\ SaveFires(written)
    \/ Alive /\ FlushTick
    \/ GracefulShutdown
    \/ ProcessExit

(***************************************************************************)
(* Specifications                                                          *)
(***************************************************************************)

SessionInit ==
    /\ now = 0
    /\ SessInit
    /\ kvConfigured = FALSE /\ KvInit
    /\ memUseKV = FALSE /\ MemInit
    /\ perUseKV = FALSE /\ PerInit
    /\ cacheUseKV = FALSE /\ CacheInit
    /\ ChunkInit
    /\ HbInit
    /\ ToolInit
    /\ EnvSettled

SpecSession == SessionInit /\ [][SessNext]_vars

\* what Redis can hold when the process starts: nothing, or a key written by
\* an earlier run
StartRemotes == {<<>>, MapSet(<<>>, "k1", [val |-> "v1", exp |-> NoExpiry])}

\* makeUpstashKV(): configured or not, by the two environment variables
AdapterInit ==
    /\ now = 0
    /\ SessInit
    /\ kvConfigured \in BOOLEAN
    /\ kvRemote \in StartRemotes
    /\ kvLast = KvIdle
    /\ memUseKV = FALSE /\ MemInit
    /\ perUseKV = FALSE /\ PerInit
    /\ cacheUseKV = FALSE /\ CacheInit
    /\ ChunkInit
    /\ HbInit
    /\ ToolInit
    /\ EnvSettled

SpecKV == AdapterInit /\ [][KvNext]_vars

\* loadMemoryDB selects the backend from the same two environment variables
\* the adapter reads; in KV mode the global seeds are in Redis
MemoryInit ==
    /\ now = 0
    /\ SessInit
    /\ memUseKV \in BOOLEAN
    /\ kvConfigured = memUseKV
    /\ kvRemote = IF memUseKV
                  THEN [k \in {memKeyFor("global")} |-> [val |-> SEED, exp |-> NoExpiry]]
                  ELSE <<>>
    /\ kvLast = KvIdle
    /\ MemInit
    /\ perUseKV = FALSE /\ PerInit
    /\ cacheUseKV = FALSE /\ CacheInit
    /\ ChunkInit
    /\ HbInit
    /\ ToolInit
    /\ EnvSettled

SpecMemory == MemoryInit /\ [][MemNext]_vars

\* loadPersonaDB selects the backend from the two environment variables; the
\* store starts empty
PersonaInit ==
    /\ now = 0
    /\ SessInit
    /\ perUseKV \in BOOLEAN
    /\ kvConfigured = perUseKV
    /\ KvInit
    /\ memUseKV = FALSE /\ MemInit
    /\ PerInit
    /\ cacheUseKV = FALSE /\ CacheInit
    /\ ChunkInit
    /\ HbInit
    /\ ToolInit
    /\ EnvSettled

SpecPersona == PersonaInit /\ [][PerNext]_vars

SpecPersonaApi == PersonaInit /\ [][PerApiNext]_vars

\* a list remembered for channel c1 before the reads start
StartList == <<[id |-> 3, text |-> <<"a">>, at |-> 0]>>

\* a persona record patched for channel c1 before the reads start
StartPersona == merge(DEFAULT, [k \in {"tone"} |-> "gruff"])

\* both stores select their backend from the same two environment variables;
\* the memory store holds the global seeds, and channel c1 may already have a
\* list and a persona record
AccessorInit ==
    /\ now = 0
    /\ SessInit
    /\ memUseKV \in BOOLEAN
    /\ perUseKV = memUseKV
    /\ kvConfigured = memUseKV
    /\ kvLast = KvIdle
    /\ \E hasList \in BOOLEAN, hasPersona \in BOOLEAN :
          LET lists == IF hasList
                       THEN MapSet([c \in {"global"} |-> SEED], "c1", StartList)
                       ELSE [c \in {"global"} |-> SEED]
              personas == IF hasPersona THEN [c \in {"c1"} |-> StartPersona] ELSE <<>>
          IN  /\ memDb = IF memUseKV THEN <<>> ELSE lists
              /\ perDb = IF perUseKV THEN <<>> ELSE personas
              /\ perFile = IF perUseKV THEN <<>> ELSE fileSave(personas)
              /\ kvRemote = IF ~memUseKV THEN <<>>
                            ELSE [k \in {memKeyFor(c) : c \in DOMAIN lists}
                                         \cup {perKeyFor(c) : c \in DOMAIN personas} |->
                                    [val |-> IF \E c \in DOMAIN lists : k = memKeyFor(c)
                                             THEN lists[CHOOSE c \in DOMAIN lists : k = memKeyFor(c)]
                                             ELSE personas[CHOOSE c \in DOMAIN personas : k = perKeyFor(c)],
                                     exp |-> NoExpiry]]
    /\ memCall = MemIdle /\ memLast = MemNone
    /\ perTasks = {} /\ perLast = PerNone /\ race = RaceOff
    /\ cacheUseKV = FALSE /\ CacheInit
    /\ ChunkInit
    /\ HbInit
    /\ ToolInit
    /\ EnvSettled

\* the read accessors of the two stores, and the awaits of getPersonaAsync
AccessorNext ==
    \/ \E c \in PerChannels : GetPersona(c)
    \/ \E c \in PerChannels : GetPersonaAsync(c)
    \/ \E t \in perTasks, net \in NetOutcomes : TaskGet(t, net)
    \/ \E t \in perTasks, net \in NetOutcomes : TaskSeed(t, net)
    \/ \E c \in MemChannels : ListMemories(c)
    \/ \E c \in MemChannels, net \in NetOutcomes : ListMemoriesAsync(c, net)

SpecAccessors == AccessorInit /\ [][AccessorNext]_vars

\* the lengths of the list stored for channel c1, around the cap of 50
StoredLens == {0, 1, 49, 50, 51, 52}

\* the max arguments handed to memoryContext: the default 10, and others
MaxArgs == {0, 1, 10, 50, 51, 60}

\* a list of n memories as remember builds it: the latest first
listOfLen(n) == [i \in 1..n |-> [id |-> n + 1 - i, text |-> <<"a">>, at |-> n + 1 - i]]

\* the memory store after loadMemoryDB, with a list of any length for c1
ReadCapInit ==
    /\ now = 0
    /\ SessInit
    /\ memUseKV \in BOOLEAN
    /\ kvConfigured = memUseKV
    /\ kvLast = KvIdle
    /\ \E n \in StoredLens :
          LET lists == MapSet([c \in {"global"} |-> SEED], "c1", listOfLen(n)) IN
          /\ memDb = IF memUseKV THEN <<>> ELSE lists
          /\ kvRemote = IF ~memUseKV THEN <<>>
                        ELSE [k \in {memKeyFor(c) : c \in DOMAIN lists} |->
                                [val |-> lists[CHOOSE c \in DOMAIN lists : k = memKeyFor(c)],
                                 exp |-> NoExpiry]]
    /\ memCall = MemIdle /\ memLast = MemNone
    /\ perUseKV = FALSE /\ PerInit
    /\ cacheUseKV = FALSE /\ CacheInit
    /\ ChunkInit
    /\ HbInit
    /\ ToolInit
    /\ EnvSettled

\* the three read accessors of the memory store
ReadCapNext ==
    \/ \E c \in MemChannels : ListMemories(c)
    \/ \E c \in MemChannels, net \in NetOutcomes : ListMemoriesAsync(c, net)
    \/ \E c \in MemChannels, max \in MaxArgs : MemoryContext(c, max)

SpecReadCap == ReadCapInit /\ [][ReadCapNext]_vars

\* a memory remembered for the global channel on top of the seeds
GlobalNote == [id |-> 4, text |-> <<"1", "A">>, at |-> 0]

\* the global lists a start may find stored, besides none at all: an empty
\* one, the seeds, the seeds and a note, a note alone
StartGlobals == {<<>>, SEED, <<GlobalNote>> \o SEED, <<GlobalNote>>}

\* the process starts: loadMemoryDB is about to run on what the memory file
\* or Redis holds from earlier runs
LoadInit ==
    /\ now = 0
    /\ SessInit
    /\ memUseKV \in BOOLEAN
    /\ kvConfigured = memUseKV
    /\ kvLast = KvIdle
    /\ \E hasGlobal \in BOOLEAN, global \in StartGlobals, hasList \in BOOLEAN :
          LET g == IF hasGlobal THEN [c \in {"global"} |-> global] ELSE <<>>
              lists == IF hasList THEN MapSet(g, "c1", StartList) ELSE g
          IN  /\ hasGlobal \/ global = <<>>
              /\ memDb = IF memUseKV THEN <<>> ELSE lists
              /\ kvRemote = IF ~memUseKV THEN <<>>
                            ELSE [k \in {memKeyFor(c) : c \in DOMAIN lists} |->
                                    [val |-> lists[CHOOSE c \in DOMAIN lists : k = memKeyFor(c)],
                                     exp |-> NoExpiry]]
    /\ memCall = [pc |-> "boot"] /\ memLast = MemNone
    /\ perUseKV = FALSE /\ PerInit
    /\ cacheUseKV = FALSE /\ CacheInit
    /\ ChunkInit
    /\ HbInit
    /\ ToolInit
    /\ EnvSettled

\* the start of the memory store, and the reads that follow it
LoadNext ==
    \/ LoadMemoryDB
    \/ \E net \in NetOutcomes : LoadGet(net)
    \/ \E net \in NetOutcomes : LoadSeed(net)
    \/ \E c \in MemChannels : ListMemories(c)
    \/ \E c \in MemChannels, net \in NetOutcomes : ListMemoriesAsync(c, net)

SpecLoad == LoadInit /\ [][LoadNext]_vars

\* initCache selects the backend from the two environment variables; the
\* store starts empty; Redis is empty or holds a payload that is not JSON
CachingInit ==
    /\ now = 0
    /\ SessInit
    /\ cacheUseKV \in BOOLEAN
    /\ kvConfigured = cacheUseKV
    /\ kvRemote \in (IF cacheUseKV THEN {<<>>, MapSet(<<>>, cacheKeyFor("k1"),
                                                     [val |-> Garbage, exp |-> NoExpiry])}
                     ELSE {<<>>})
    /\ kvLast = KvIdle
    /\ memUseKV = FALSE /\ MemInit
    /\ perUseKV = FALSE /\ PerInit
    /\ CacheInit
    /\ ChunkInit
    /\ HbInit
    /\ ToolInit
    /\ EnvSettled

SpecCache == CachingInit /\ [][CacheNext]_vars

\* a call of splitForDiscord on any of the bounded texts with any of the limits
ChunkerInit ==
    /\ now = 0
    /\ SessInit
    /\ kvConfigured = FALSE /\ KvInit
    /\ memUseKV = FALSE /\ MemInit
    /\ perUseKV = FALSE /\ PerInit
    /\ cacheUseKV = FALSE /\ CacheInit
    /\ chunkText \in TextsOf(MaxPieces)
    /\ chunkMax \in 1..MaxLimit
    /\ chunkOut = NotSplit
    /\ HbInit
    /\ ToolInit
    /\ EnvSettled

SpecChunk == ChunkerInit /\ [][ChunkNext]_vars

\* the process has started and the client is not ready yet; Redis is empty,
\* or holds a heartbeat that another publisher has just written with EX 120
HeartbeatInit ==
    /\ now = HbTickMs
    /\ SessInit
    /\ kvConfigured = TRUE
    /\ kvRemote \in {<<>>, [k \in {HEARTBEAT_KEY} |->
                               [val |-> JSONstringify(payloadAt(now)), exp |-> now + STALE_MS]]}
    /\ kvLast = KvIdle
    /\ memUseKV = FALSE /\ MemInit
    /\ perUseKV = FALSE /\ PerInit
    /\ cacheUseKV = FALSE /\ CacheInit
    /\ ChunkInit
    /\ HbInit
    /\ ToolInit
    /\ EnvSettled

SpecHeartbeat == HeartbeatInit /\ [][HbNext]_vars

SpecHeartbeatLive == HeartbeatInit /\ [][HbLiveNext]_vars

\* a process that has just been started: the module-level defaults of the
\* three stores (useKV = false, empty maps), any setting of the two
\* environment variables, and files left by an earlier run
StartupInit ==
    /\ now = 0
    /\ SessInit
    /\ env \in [url : BOOLEAN, token : BOOLEAN, pc : {"start"}]
    /\ kvConfigured = hasRemote(env) /\ KvInit
    /\ memUseKV = FALSE /\ memDb = <<>> /\ memCall = MemIdle /\ memLast = MemNone
    /\ perUseKV = FALSE /\ perDb = <<>> /\ perTasks = {} /\ perLast = PerNone
    /\ race = RaceOff
    /\ perFile \in PersonaFiles
    /\ cacheUseKV = FALSE /\ CacheInit
    /\ ChunkInit
    /\ HbInit
    /\ ToolInit

SpecStartup == StartupInit /\ [][StartupNext]_vars

\* the max arguments of the prompt builder: persona.max_history || 10
ContextMaxes == {1, 2, 10}

\* remember, and the memory context built for the next prompt
ContextNext ==
    \/ \E c \in MemChannels, text \in MemTexts : Remember(c, text)
    \/ \E c \in MemChannels, text \in MemTexts : RememberKV(c, text)
    \/ \E c \in MemChannels, max \in ContextMaxes : MemoryContext(c, max)

SpecContext == MemoryInit /\ [][ContextNext]_vars

\* the cache of a process without the remote backend
FlushInit == CachingInit /\ ~cacheUseKV

SpecFlush == FlushInit /\ [][FlushNext]_vars

\* the patches of the two callers: they touch different fields
RacePatches == { [k \in {"humor"} |-> 1], [k \in {"snark"} |-> 2] }

\* remote mode, with or without a record for c1, and the writes followed
RaceInit ==
    /\ now = 0
    /\ SessInit
    /\ kvConfigured = TRUE
    /\ kvRemote \in {<<>>, [k \in {perKeyFor("c1")} |-> [val |-> StartPersona, exp |-> NoExpiry]]}
    /\ kvLast = KvIdle
    /\ memUseKV = FALSE /\ MemInit
    /\ perUseKV = TRUE
    /\ perDb = <<>> /\ perTasks = {} /\ perFile = <<>> /\ perLast = PerNone
    /\ race = RaceOn
    /\ cacheUseKV = FALSE /\ CacheInit
    /\ ChunkInit
    /\ HbInit
    /\ ToolInit
    /\ EnvSettled

\* setPersona calls on one channel, and the awaits of their async blocks in
\* any order and with any outcome
RaceNext ==
    \/ \E patch \in RacePatches : SetPersona("c1", patch)
    \/ \E t \in perTasks, net \in NetOutcomes : TaskGet(t, net)
    \/ \E t \in perTasks, net \in NetOutcomes : TaskSeed(t, net)
    \/ \E t \in perTasks, net \in NetOutcomes : TaskPut(t, net)

SpecRace == RaceInit /\ [][RaceNext]_vars

\* an empty cache in either mode, with the overlapping calls followed
StampedeInit ==
    /\ now = 0
    /\ SessInit
    /\ cacheUseKV \in BOOLEAN
    /\ kvConfigured = cacheUseKV
    /\ KvInit
    /\ memUseKV = FALSE /\ MemInit
    /\ perUseKV = FALSE /\ PerInit
    /\ cacheStore = <<>> /\ saveTimer = NoTimer /\ timers = {} /\ cacheFile = <<>>
    /\ calls = [i \in CallIds |-> CallIdle]
    /\ cacheLast = CacheNone /\ lastStore = <<>> /\ lastFailed = {} /\ solo = SoloNone
    /\ herd = HerdOn
    /\ ChunkInit
    /\ HbInit
    /\ ToolInit
    /\ EnvSettled

\* cached() calls for one key that overlap in any way, each with its own
\* compute function, at one moment
StampedeNext ==
    \/ \E i \in CallIds, k \in CacheKeys : CachedStart(i, k, 1)
    \/ \E i \in CallIds, net \in NetOutcomes : CachedGot(i, net)
    \/ \E i \in CallIds, v \in CacheVals : Computed(i, v)
    \/ \E i \in CallIds, net \in NetOutcomes : CachedSet(i, net)

SpecStampede == StampedeInit /\ [][StampedeNext]_vars

\* the three tool modules after import, with or without INARA_API_KEY
RetryInit ==
    /\ now = 0
    /\ SessInit
    /\ kvConfigured = FALSE /\ KvInit
    /\ memUseKV = FALSE /\ MemInit
    /\ perUseKV = FALSE /\ PerInit
    /\ cacheUseKV = FALSE /\ CacheInit
    /\ ChunkInit
    /\ HbInit
    /\ tool \in {[NoTool EXCEPT !.hasKey = b] : b \in BOOLEAN}
    /\ EnvSettled

SpecRetry == RetryInit /\ [][ToolNext]_vars

SpecShutdown == FlushInit /\ [][ShutdownNext]_vars

SpecTimeout == RetryInit /\ [][ReqNext]_vars

\* remember in either mode, the remote one with every outcome of its requests
RememberNext ==
    \/ \E c \in MemChannels, text \in MemTexts : Remember(c, text)
    \/ \E c \in MemChannels, text \in MemTexts, getNet \in NetOutcomes, putNet \in NetOutcomes :
          RememberOutcome(c, text, getNet, putNet)

SpecRemember == MemoryInit /\ [][RememberNext]_vars

\* the loader of a process that has just started, with or without its URL
PdfInit ==
    /\ now = PdfEpoch
    /\ SessInit
    /\ kvConfigured = FALSE /\ KvInit
    /\ memUseKV = FALSE /\ MemInit
    /\ perUseKV = FALSE /\ PerInit
    /\ cacheUseKV = FALSE /\ CacheInit
    /\ ChunkInit
    /\ HbInit
    /\ tool \in {[NoTool EXCEPT !.pdf.url = b] : b \in BOOLEAN}
    /\ EnvSettled

SpecPdf == PdfInit /\ [][PdfNext]_vars

\* setPersona and resetPersona calls on one channel, and the awaits of their
\* async blocks in any order and with any outcome
ResetNext ==
    \/ \E patch \in RacePatches : SetPersona("c1", patch)
    \/ PersonaCommandReset("c1")
    \/ \E t \in perTasks, net \in NetOutcomes : TaskGet(t, net)
    \/ \E t \in perTasks, net \in NetOutcomes : TaskSeed(t, net)
    \/ \E t \in perTasks, net \in NetOutcomes : TaskPut(t, net)

SpecReset == RaceInit /\ [][ResetNext]_vars

\* what is typed after `forget`: a position, a text, a position out of range
FileSpecs == {<<"1">>, <<"a">>, <<"9">>}

\* the four writing operations in file mode, in any order
FileOpsNext ==
    \/ \E c \in PerChannels, patch \in RacePatches : SetPersona(c, patch)
    \/ \E c \in PerChannels : PersonaCommandReset(c)
    \/ \E text \in MemTexts : Remember("c1", text)
    \/ \E spec \in FileSpecs : Forget("c1", spec)

\* both stores on their files
FileOpsInit == MemoryInit /\ ~memUseKV

SpecFileOps == FileOpsInit /\ [][FileOpsNext]_vars

\* the publisher against an endpoint of UPSTASH_REDIS_REST_URL that obeys a
\* SET whose EX it cannot read
LenientInit ==
    /\ now = HbTickMs
    /\ SessInit
    /\ kvConfigured = TRUE
    /\ kvRemote = <<>>
    /\ kvLast = KvIdle
    /\ memUseKV = FALSE /\ MemInit
    /\ perUseKV = FALSE /\ PerInit
    /\ cacheUseKV = FALSE /\ CacheInit
    /\ ChunkInit
    /\ hb = [HbStart EXCEPT !.lenient = TRUE]
    /\ ToolInit
    /\ EnvSettled

SpecHeartbeatOrder == LenientInit /\ [][HbNext]_vars

(***************************************************************************)
(* Claims                                                                  *)
(***************************************************************************)

\* every chunk text of the list is a non-empty string
NonEmptyTexts(chunks) == \A i \in 1..Len(chunks) : chunks[i] # ""

\* The pops made on c since its last setPending, all before expiry, returned
\* the first chunks of the enqueued list in order; the entry holds the rest;
\* after the last one the entry is gone and hasPending is false.
ExhaustionOf(c) ==
    /\ Len(popped[c]) <= Len(enq[c])
    /\ popped[c] = SubSeq(enq[c], 1, Len(popped[c]))
    /\ Len(popped[c]) < Len(enq[c]) =>
          /\ c \in DOMAIN pending
          /\ pending[c].chunks = SubSeq(enq[c], Len(popped[c]) + 1, Len(enq[c]))
    /\ Len(popped[c]) = Len(enq[c]) =>
          /\ c \notin DOMAIN pending
          /\ hasPending(pending, c, now).ret = FALSE

\* C7 as stated: for every non-empty chunk sequence enqueued with setPending,
\* n successive popNext calls made before expiry return c1..cn in order, and
\* after the n-th pop hasPending is false and the channel has no entry.
C7_ExhaustionAnyChunks ==
    \A c \in Channels : intact[c] /\ enq[c] # <<>> => ExhaustionOf(c)

\* C7 amended: the same for every non-empty sequence of non-empty chunk texts
\* (popNext returns null in place of an empty-string chunk).
C7_Exhaustion ==
    \A c \in Channels :
        intact[c] /\ enq[c] # <<>> /\ NonEmptyTexts(enq[c]) => ExhaustionOf(c)

\* C7 witness: two distinct chunks were enqueued, both came back in order, and
\* a hasPending call made after the second pop returned false.
C7_Witness ==
    \E c \in Channels :
        /\ intact[c] /\ enq[c] = <<"a", "b">> /\ popped[c] = <<"a", "b">>
        /\ c \notin DOMAIN pending
        /\ sessLast.op = "hasPending" /\ sessLast.ch = c /\ sessLast.ret = "FALSE"

\* C8 as stated: no channel is mapped to an entry that holds zero chunks.
C8_NoEmptyEntry ==
    \A c \in DOMAIN pending : Len(pending[c].chunks) > 0

\* C9: a hasPending or popNext call that finds the channel's expiration time
\* passed returns false / null and leaves no entry for the channel (so no chunk
\* is delivered from an expired queue); a popNext that leaves chunks in the
\* queue sets the expiration to the pop time plus TTL_MS.
C9_Expiry ==
    /\ sessLast.op \in {"hasPending", "popNext"} /\ sessLast.expired =>
          /\ sessLast.ret = (IF sessLast.op = "hasPending" THEN "FALSE" ELSE Null)
          /\ sessLast.ch \notin DOMAIN pending
    /\ sessLast.op = "popNext" /\ sessLast.ch \in DOMAIN pending =>
          pending[sessLast.ch].expires = now + TTL_MS

\* C9 witness: popNext was called on a queue whose chunks had expired.
C9_Witness ==
    /\ sessLast.op = "popNext" /\ sessLast.expired
    /\ now > TTL_MS

\* what get resolves to for a key that is not there
NotFoundResult == [threw |-> FALSE, isNull |-> TRUE]

\* what set and del resolve to when the write was done
SuccessResult == [threw |-> FALSE, isNull |-> FALSE]

\* C10 as stated: with the adapter configured, get for an absent or expired
\* key returns not-found without throwing, and a transport-level failure of
\* get, set or del (non-2xx status, network error) gives the caller a result
\* that differs from not-found (get) and from success (set, del).
C10_FailureMapping ==
    kvConfigured /\ kvLast.op # "none" =>
        LET res == [threw |-> kvLast.threw, isNull |-> kvLast.isNull] IN
        /\ kvLast.op = "get" /\ kvLast.net = "ok" /\ ~kvLast.live => res = NotFoundResult
        /\ kvLast.op = "get" /\ kvLast.net # "ok" => res # NotFoundResult
        /\ kvLast.op \in {"set", "del"} /\ kvLast.net # "ok" => res # SuccessResult

\* the spec is a numeric string: one or more digits and nothing else
IsNumeric(spec) == spec # <<>> /\ \A i \in 1..Len(spec) : spec[i] \in Digits

\* what C6 says forget does to a list: the list afterwards and the answer
ForgetByClaim(list, spec) ==
    IF IsNumeric(spec) /\ DecimalValue(spec) \in 1..Len(list)
    THEN [list |-> splice(list, DecimalValue(spec)), ret |-> TRUE]
    ELSE IF findIndex(list, spec) >= 1
         THEN [list |-> splice(list, findIndex(list, spec)), ret |-> TRUE]
         ELSE [list |-> list, ret |-> FALSE]

\* C6 as stated: a forget call (whose backend requests, if any, succeeded)
\* with a numeric string naming a valid 1-based position removes exactly that
\* entry; with any other spec it removes the first entry whose text contains
\* the spec, case-insensitively; otherwise it reports not-found and leaves the
\* list unchanged.
C6_ForgetPrecedence ==
    memLast.op = "forget" /\ memLast.net = "ok" =>
        /\ memLast.ret = ToString(ForgetByClaim(memLast.before, memLast.spec).ret)
        /\ StoredList(memLast.ch) = ForgetByClaim(memLast.before, memLast.spec).list

\* every numeric slider of p is within 0..10 and its temperature within 0.2..1.2
InBounds(p) ==
    /\ \A f \in Sliders : p[f] >= 0 /\ p[f] <= 10
    /\ p.temperature >= 2 /\ p.temperature <= 12

\* C5 as stated: after every sequence of setPersona patches and resetPersona
\* calls, every numeric slider of every stored persona record is within 0..10
\* and its temperature within 0.2..1.2.
C5_ClampInvariant == \A p \in StoredPersonas : InBounds(p)

\* the call that just ended was the only one in flight all along and its
\* backend requests succeeded
SoloEnded == cacheLast.op = "cached" /\ cacheLast.solo.on /\ cacheLast.solo.netOk

\* C1 as stated: in either backend mode, once a cached() call has computed
\* and stored a value for k with TTL t, a call for k made less than t seconds
\* after that call returns the stored value without invoking its compute
\* function, and a call made after t seconds have elapsed invokes its compute
\* function exactly once.  (Calls that overlap no other call and whose backend
\* requests succeeded.)
C1_Freshness ==
    SoloEnded =>
        /\ cacheLast.solo.expect.kind = "hit" =>
              /\ cacheLast.outcome = "returned"
              /\ cacheLast.ret = cacheLast.solo.expect.val
              /\ cacheLast.invoked = 0
        /\ cacheLast.solo.expect.kind = "miss" => cacheLast.invoked = 1

\* a call ended in this step because its compute function failed
ComputeFailureStep ==
    cacheLast' # cacheLast /\ cacheLast'.op = "cached" /\ cacheLast'.why = "compute_failed"

\* C2: when the compute function fails inside cached(k, t, fn), cached()
\* throws, the step leaves the store, the pending save, the file and the
\* Redis data as they were, and the next call for k (overlapping no other and
\* with its backend requests succeeding) invokes its compute function.
C2_FailureNotRemembered ==
    /\ [](cacheLast.op = "cached" /\ cacheLast.why = "compute_failed" => cacheLast.outcome = "threw")
    /\ [][ComputeFailureStep => UNCHANGED <<cacheStore, saveTimer, timers, cacheFile, kvRemote>>]_vars
    /\ [](SoloEnded /\ cacheLast.solo.afterFailure => cacheLast.invoked = 1)

\* C2 witness: a call for a key whose previous call failed in its compute
\* function has computed and returned a value.
C2_Witness == SoloEnded /\ cacheLast.solo.afterFailure /\ cacheLast.why = "computed"

\* C3 as stated: for every text and every limit L >= 1, every chunk returned
\* by splitForDiscord(text, L) has length <= L.
C3_ChunkSizeBound ==
    chunkOut.done => \A i \in 1..Len(chunkOut.chunks) : Len(chunkOut.chunks[i]) <= chunkMax

\* the characters of str that are not whitespace
RECURSIVE Content(_)
Content(str) ==
    IF str = <<>> THEN <<>>
    ELSE IF Head(str) \in WhiteSpace THEN Content(Tail(str))
    ELSE <<Head(str)>> \o Content(Tail(str))

\* the chunks from the i-th on, in order, each without the closing fence
\* flush() appended to it
RECURSIVE Concatenated(_, _)
Concatenated(out, i) ==
    IF i > Len(out.chunks) THEN <<>>
    ELSE (IF i \in out.fenced
          THEN SubSeq(out.chunks[i], 1, Len(out.chunks[i]) - Len(ClosingFence))
          ELSE out.chunks[i]) \o Concatenated(out, i + 1)

\* C4 as stated: for every text and limit L >= 1, the chunks returned by
\* splitForDiscord, concatenated in order, hold the non-whitespace characters
\* of the text, all of them, once each and in the same order, once the closing
\* fences the chunker appended are taken away.
C4_RoundTrip ==
    chunkOut.done => Content(Concatenated(chunkOut, 1)) = Content(chunkText)

C12_UnparseableIsEmpty == cacheLast.op = "cached" => cacheLast.why # "parse_failed"

\* C13 as stated, its first part: when a persona read has returned, the
\* channel has a record in the persisted state of the backend in use (the
\* Redis entry or the persona file), equal to the record returned.
C13_DefaultPersisted ==
    perLast.op \in {"getPersona", "getPersonaAsync"} /\ ~perLast.threw =>
        /\ perLast.ch \in DOMAIN Persisted
        /\ Persisted[perLast.ch] = perLast.ret

\* C14: once a setPersona(c, patch) that started with no other call in flight
\* has completed its write, the persisted record of c is the record that was
\* current before the call with the fields of patch replaced, and the other
\* channels have the records they had
C14_PatchMerges ==
    perLast.op = "setPersona" /\ perLast.done =>
        /\ perLast.ch \in DOMAIN Persisted
        /\ Persisted[perLast.ch] = merge(perLast.before, perLast.patch)
        /\ \A x \in PerChannels \ {perLast.ch} :
              /\ x \in DOMAIN Persisted <=> x \in DOMAIN perLast.others
              /\ x \in DOMAIN Persisted => Persisted[x] = perLast.others[x]

StoreState == <<perUseKV, perDb, perFile, memUseKV, memDb, kvRemote>>

ReturnedTexts ==
    IF memLast.op = "memoryContext"
    THEN IF memLast.ret = <<>> THEN <<>>
         ELSE [i \in 1..(Len(memLast.ret) - 1) |-> SubSeq(memLast.ret[i + 1], 3, Len(memLast.ret[i + 1]))]
    ELSE [i \in 1..Len(memLast.ret) |-> memLast.ret[i].text]

\* the list a read is about: the one stored for the channel, or the global
\* one when memoryContext finds none for the channel in db
ReadList ==
    IF memLast.op = "memoryContext" /\ ~memUseKV /\ memLast.ch \notin DOMAIN memDb
    THEN dbList(memDb, "global")
    ELSE StoredList(memLast.ch)

\* C16: whatever the length of the stored list and the max argument, a read
\* by listMemories, listMemoriesAsync or memoryContext that returns gives at
\* most 50 entries, and they are the first entries of the list stored for the
\* channel
C16_ReadCap ==
    memLast.op \in {"listMemories", "listMemoriesAsync", "memoryContext"} /\ ~memLast.threw
    /\ (memLast.op = "listMemoriesAsync" => memLast.net = "ok") =>
        /\ Len(ReturnedTexts) <= READ_CAP
        /\ \A i \in 1..Len(ReturnedTexts) :
              \E j \in 1..Len(ReadList) : j <= READ_CAP /\ ReturnedTexts[i] = ReadList[j].text

\* the lists of the memory store by channel, in the backend in use
MemStore ==
    IF memUseKV
    THEN [c \in {x \in MemChannels \cup {"global"} : memKeyFor(x) \in DOMAIN kvRemote} |->
             kvRemote[memKeyFor(c)].val]
    ELSE memDb

\* the lists by channel that a loadMemoryDB call found
FoundStore ==
    IF memUseKV
    THEN [c \in {x \in MemChannels \cup {"global"} : memKeyFor(x) \in DOMAIN memLast.before} |->
             memLast.before[memKeyFor(c)].val]
    ELSE memLast.before

\* C17: after loadMemoryDB, in both backends, a global list that was stored
\* with entries is as it was, no channel other than global has been written,
\* and a global list written by the call is the seed list
C17_SeedOnlyWhenEmpty ==
    memLast.op = "loadMemoryDB" =>
        /\ dbList(FoundStore, "global") # <<>> => MemStore = FoundStore
        /\ \A c \in MemChannels :
              /\ c \in DOMAIN MemStore <=> c \in DOMAIN FoundStore
              /\ c \in DOMAIN MemStore => MemStore[c] = FoundStore[c]
        /\ MemStore # FoundStore => MemStore["global"] = SEED

\* C18 as stated: for every text no longer than the limit, the empty text and
\* a text with an unterminated code fence included, splitForDiscord returns
\* the one-element sequence [text]
C18_ShortInput ==
    chunkOut.done /\ Len(chunkText) <= chunkMax => chunkOut.chunks = <<chunkText>>

\* C18, amended: for every text that is not empty and no longer than the
\* limit, a text with an unterminated code fence included, splitForDiscord
\* returns [text]; for the empty text it returns the empty sequence
C18_ShortInputAmended ==
    chunkOut.done /\ Len(chunkText) <= chunkMax =>
        chunkOut.chunks = IF chunkText = <<>> THEN <<>> ELSE <<chunkText>>

\* a text with an unterminated code fence, within the limit, returned as it is
C18_Witness ==
    /\ chunkOut.done /\ Len(chunkText) <= chunkMax
    /\ fenceCount(chunkText) = 1 /\ chunkOut.chunks = <<chunkText>>

\* C19: every chunk returned for a text longer than the limit holds an even
\* number of triple-backtick markers
C19_FenceClosure ==
    chunkOut.done /\ Len(chunkText) > chunkMax =>
        \A i \in 1..Len(chunkOut.chunks) : fenceCount(chunkOut.chunks[i]) % 2 = 0

\* C20: time never passes a moment at which a heartbeat is due and not yet
\* issued: once the client is ready, one write has been issued at once and
\* one more for every 30 seconds since, whether or not the earlier writes
\* have ended
C20_HeartbeatSchedule ==
    [][now' > now /\ hb.pc # "starting" =>
          hb.issued >= 1 + ((now - hb.readyAt) \div HEARTBEAT_MS)]_vars

\* the Redis entries other than the heartbeat's
OtherEntries(remote) == [k \in (DOMAIN remote) \ {HEARTBEAT_KEY} |-> remote[k]]

\* C21: no writeHeartbeat() call ends by throwing, however its kv.set ended,
\* and the process never ends by one; a step of the heartbeat leaves the
\* cache, the persona store, the memory store, the pending queues and the
\* Redis entries of the stores as they are; and a message can be handled in
\* every state, with heartbeat writes in flight or failed
C21_HeartbeatSwallowed ==
    /\ [](/\ hb.pc # "crashed"
          /\ hb.last.op = "writeHeartbeat" => ~hb.last.threw
          /\ \A c \in Channels : ENABLED HasPending(c))
    /\ [][hb' # hb => /\ UNCHANGED <<sessVars, memVars, perVars, cacheVars>>
                      /\ OtherEntries(kvRemote') = OtherEntries(kvRemote)]_vars

\* a heartbeat write has been rejected, another is in flight, and a message
\* has been handled since
C21_Witness ==
    /\ hb.last.op = "writeHeartbeat" /\ hb.last.net = "network_error"
    /\ hb.inFlight # {} /\ sessLast.op = "hasPending"

\* the heartbeat record in Redis at the moment: whether there is one, and it
StoredHeartbeat ==
    [some |-> RedisLive(kvRemote, HEARTBEAT_KEY, now),
     val |-> IF RedisLive(kvRemote, HEARTBEAT_KEY, now)
             THEN JSONparse(kvRemote[HEARTBEAT_KEY].val).val ELSE payloadAt(0)]

\* C22: an answer of the status server whose read of Redis got through says
\* ok exactly when there is a heartbeat record with ready = true and a
\* timestamp at most 120 s old; it never says stale while the publisher is
\* ready and each of its writes, one every 30 s, has succeeded; and with no
\* record it says stale and gives no last-heartbeat time
C22_ProbeFreshness ==
    hb.probe.op = "status" /\ hb.probe.net = "ok" =>
        /\ hb.probe.ok <=> /\ StoredHeartbeat.some /\ StoredHeartbeat.val.ready
                           /\ now - StoredHeartbeat.val.ts <= STALE_MS
        /\ hb.pc = "ticking" /\ hb.prompt => ~hb.probe.stale
        /\ ~StoredHeartbeat.some => hb.probe.stale /\ ~hb.probe.hasLast

\* the keys of one store in the remote backend
StoreKeys(prefix) == {prefix \o c : c \in PerChannels \cup MemChannels \cup CacheKeys \cup {"global"}}

\* the entries of the remote backend under the keys of one store
StoreEntries(remote, prefix) == [k \in (DOMAIN remote) \cap StoreKeys(prefix) |-> remote[k]]

\* C23: once the ready handler has made the selections, each store's useKV is
\* what the environment says (remote exactly when the endpoint and the
\* credential are both set) and no step changes it; and a step that changes
\* the file side of a store (its in-memory map, its file, its save timer)
\* happens only in a process that selected the file, a step that changes the
\* store's keys in the remote backend only in one that selected the remote
C23_BackendImmutable ==
    /\ [](env.pc = "ready" =>
            /\ cacheUseKV = hasRemote(env)
            /\ perUseKV = hasRemote(env)
            /\ memUseKV = hasRemote(env))
    /\ [][env.pc = "ready" => UNCHANGED <<cacheUseKV, perUseKV, memUseKV, env>>]_vars
    /\ [][/\ <<cacheStore, cacheFile, saveTimer>>' # <<cacheStore, cacheFile, saveTimer>>
              => ~hasRemote(env)
          /\ <<perDb, perFile>>' # <<perDb, perFile>> => ~hasRemote(env)
          /\ memDb' # memDb => ~hasRemote(env)
          /\ StoreEntries(kvRemote', "cache:") # StoreEntries(kvRemote, "cache:")
              => hasRemote(env) /\ cacheUseKV
          /\ StoreEntries(kvRemote', "persona:") # StoreEntries(kvRemote, "persona:")
              => hasRemote(env) /\ perUseKV
          /\ StoreEntries(kvRemote', "mem:") # StoreEntries(kvRemote, "mem:")
              => hasRemote(env) /\ memUseKV]_vars

\* all three stores have written to the remote backend they selected
C23_Witness ==
    /\ env.pc = "ready" /\ hasRemote(env)
    /\ StoreEntries(kvRemote, "cache:") # <<>>
    /\ StoreEntries(kvRemote, "persona:") # <<>>
    /\ memKeyFor("c1") \in DOMAIN kvRemote

\* a memory context was built for a channel that has a stored memory
ContextBuilt ==
    /\ memLast.op = "memoryContext" /\ memLast.max >= 1
    /\ StoredList(memLast.ch) # <<>>

\* the context holds a line with the text of the latest entry of the channel
\* (remember puts the new entry at the head of the list)
HoldsLatest ==
    \E i \in 1..Len(ReturnedTexts) : ReturnedTexts[i] = StoredList(memLast.ch)[1].text

\* C24: in both backends, the memory context built with max >= 1 for a
\* channel that has at least one stored memory contains the entry
\* remembered last for that channel
C24_ContextHasLatest == ContextBuilt => HoldsLatest

\* the same for the file backend alone
C24_FileContextHasLatest == ContextBuilt /\ ~memUseKV => HoldsLatest

\* a step in which cached() stores a computed value or clearCache empties
\* the store
CacheWriteStep ==
    \/ cacheStore' # cacheStore
    \/ cacheLast'.op = "cached" /\ cacheLast'.why = "computed"

\* a step in which a save timer fires
TimerFiresStep == timers' # timers /\ timers' \subseteq timers

\* C25: in file mode at most one save timer is pending at any time; every
\* cache write leaves exactly the timer of 400 ms it has just set; the file
\* changes only in a step where the timer fires; the timer that fires is due
\* and is the only one, so it was set by the last write and no save happens
\* while a write is less than 400 ms old; the save writes the store as it is
\* at that moment (or fails and leaves the file), and leaves no timer behind:
\* a burst of writes less than 400 ms apart ends in one save
C25_DebouncedFlush ==
    /\ [](Cardinality(timers) <= 1 /\ timers = {saveTimer} \ {NoTimer})
    /\ [][CacheWriteStep => timers' = {now + SAVE_DEBOUNCE_MS}]_vars
    /\ [][cacheFile' # cacheFile => TimerFiresStep /\ cacheFile' = cacheStore]_vars
    /\ [][TimerFiresStep =>
            /\ \A t \in timers : t <= now
            /\ timers' = {}
            /\ cacheFile' \in {cacheFile, cacheStore}
            /\ cacheStore' = cacheStore]_vars

\* two writes and one save within less than two debounce periods: both
\* writes came before the save, which holds them both
C25_Witness ==
    /\ now < 2 * SAVE_DEBOUNCE_MS /\ now > SAVE_DEBOUNCE_MS
    /\ timers = {}
    /\ DOMAIN cacheFile = {"k1", "k2"} /\ cacheFile = cacheStore

\* C26: no chunk is pushed straight from the line, sentence or hard-cut
\* fallback while the buffer holds text that has not been emitted
C26_FlushBeforeFallback == chunkOut.done => chunkOut.held = {}

\* C27: in remote mode, whenever no setPersona call is in flight and the
\* write that reached Redis last was the final write of a setPersona call,
\* the record persisted for the channel is the snapshot that call read
\* merged with its own patch, whatever other calls overlapped with it
C27_LastWriterWins ==
    race.on /\ perTasks = {} /\ race.last.kind = "put" =>
        /\ "c1" \in DOMAIN Persisted
        /\ Persisted["c1"] = merge(race.last.task.current, race.last.task.patch)

\* the final writes of two calls with different patches both reached Redis,
\* and the record persisted is the stored one with the second patch alone:
\* the second call read before the first one wrote
C27_Witness ==
    /\ race.on /\ perTasks = {} /\ race.last.kind = "put"
    /\ race.puts = RacePatches
    /\ Persisted["c1"] = merge(StartPersona, [k \in {"snark"} |-> 2])

\* the value stored for key k in the backend in use, if any
StoredValue(k) ==
    IF cacheUseKV
    THEN IF RedisLive(kvRemote, cacheKeyFor(k), now)
         THEN [some |-> TRUE, val |-> JSONparse(kvRemote[cacheKeyFor(k)].val).val]
         ELSE [some |-> FALSE, val |-> Null]
    ELSE IF k \in DOMAIN cacheStore
         THEN [some |-> TRUE, val |-> cacheStore[k].data]
         ELSE [some |-> FALSE, val |-> Null]

\* two or more compute functions have completed for calls that overlapped,
\* all requests were answered with success, and no call is in flight any more
HerdOver == herd.on /\ AllIdle /\ herd.n >= 2 /\ herd.ok

\* a call that invoked its compute function has ended
OwnCompute == cacheLast.op = "cached" /\ cacheLast.why = "computed"

\* C28: overlapping cached() calls for a key without a live record each
\* invoke their own compute function once and return its value, and when
\* they are over the record stored for the key is the one of the call whose
\* compute function completed last
C28_NoStampede ==
    /\ OwnCompute => cacheLast.invoked = 1 /\ cacheLast.outcome = "returned"
    /\ HerdOver => StoredValue("k1") = [some |-> TRUE, val |-> herd.last]

\* C28 amended: each call invokes its own compute function once and returns
\* its value; the record stored afterwards is the one written last, which in
\* file mode is that of the call whose compute function completed last, and
\* in remote mode that of the call whose kv.set reached Redis last
C28_NoStampedeAmended ==
    /\ OwnCompute /\ herd.ok => cacheLast.invoked = 1 /\ cacheLast.outcome = "returned"
    /\ HerdOver =>
          /\ StoredValue("k1").some /\ "k1" \in DOMAIN lastStore
          /\ StoredValue("k1").val = lastStore["k1"].val
          /\ ~cacheUseKV => StoredValue("k1").val = herd.last

\* remote mode: two calls have computed different values, and the value
\* stored is the one computed first
C28_Witness ==
    /\ HerdOver /\ cacheUseKV
    /\ StoredValue("k1").some /\ StoredValue("k1").val # herd.last

\* a data-tool call has ended
ToolEnded == tool.call.pc = "idle" /\ tool.call.out # "none"

\* the entry of the call's key holds what the call returned
CachedAnswer ==
    /\ "q" \in DOMAIN tool.cache[tool.call.api]
    /\ tool.cache[tool.call.api]["q"].v = tool.call.ret

\* what the claims about the retry share: at most two attempts; a second
\* attempt comes after a wait of 150 to 400 ms; a call that throws has made
\* two attempts (or none: INARA without its API key) and has written no
\* cache entry
RetryOnce ==
    /\ tool.call.attempts <= RETRIES + 1
    /\ tool.call.attempts = 2 =>
          tool.call.slept >= BACKOFF_MIN_MS /\ tool.call.slept <= BACKOFF_MIN_MS + BACKOFF_SPAN_MS
    /\ ToolEnded /\ tool.call.out = "threw" =>
          /\ tool.call.attempts = 2 \/ (tool.call.attempts = 0 /\ tool.call.api = "inara" /\ ~tool.hasKey)
          /\ ~tool.call.wrote

\* C29: every data-tool request is attempted at most twice per call, the
\* second time after a wait of 150 to 400 ms; when both attempts fail the
\* call throws and writes no cache entry; an answer obtained by either
\* attempt is cached and returned
C29_RetryOnce ==
    /\ RetryOnce
    /\ ToolEnded /\ tool.call.out = "returned" /\ tool.call.attempts >= 1 =>
          tool.call.wrote /\ CachedAnswer

\* C29 amended: the same, but the answer is cached only when the request has
\* a cache key, which an INARA request has only when all its events are
\* read-like ones
C29_RetryOnceAmended ==
    /\ RetryOnce
    /\ ToolEnded /\ tool.call.out = "returned" /\ tool.call.attempts >= 1 =>
          /\ tool.call.wrote <=> isCacheable(tool.call.api, tool.call.readLike)
          /\ tool.call.wrote => CachedAnswer

\* an INARA request with an event that is not read-like has been answered on
\* its second attempt, and nothing was cached
C29_Witness ==
    /\ ToolEnded /\ tool.call.out = "returned" /\ tool.call.attempts = 2
    /\ tool.call.api = "inara" /\ ~tool.call.readLike /\ ~tool.call.wrote

\* the step in which the kv.set of call i is answered without the value
\* having been stored
WriteFailedStep(i) ==
    /\ calls[i].pc = "set" /\ calls'[i].pc = "idle"
    /\ \/ cacheKeyFor(calls[i].key) \notin DOMAIN kvRemote'
       \/ kvRemote'[cacheKeyFor(calls[i].key)].val # JSONstringify(calls[i].val)

\* C30: a store operation whose remote write fails reports the failure to its
\* caller: a cached() call whose kv.set did not store the value ends by
\* throwing
C30_FailedWriteReported ==
    [][\A i \in CallIds : WriteFailedStep(i) => cacheLast'.outcome = "threw"]_vars

\* a heartbeat write has just ended and its request got through
HeartbeatWritten == hb.last.op = "writeHeartbeat" /\ hb.last.net = "ok"

\* C31: a heartbeat write that got through leaves a record under
\* health:heartbeat that expires 120 seconds after the write
C31_HeartbeatTtl ==
    HeartbeatWritten =>
        /\ HEARTBEAT_KEY \in DOMAIN kvRemote
        /\ kvRemote[HEARTBEAT_KEY].exp = now + 120 * 1000

\* the step in which the process exits
ExitStep == env.pc = "stopping" /\ env'.pc = "exited"

\* C32: when the process exits on a signal with a save still pending, the
\* file holds the store as it is at that moment
C32_FinalFlush ==
    [][ExitStep /\ timers # {} => cacheFile' = cacheStore]_vars

\* C33: no network call is pending for longer than the timeout: a call that
\* has not completed when the timeout elapses is aborted
C33_CallsTimeOut == ReqPending => now - tool.req.start <= TIMEOUT

\* the same of the calls that keep their timer to the end: INARA, EliteBGS
\* and the PDF fetch
C33_TimedCallsTimeOut ==
    ReqPending /\ tool.req.kind \in {"inara", "ebgs", "pdf"} => now - tool.req.start <= TIMEOUT

\* C34: the record returned by setPersona(c, patch) is the channel's current
\* record merged with the patch
C34_ReturnsNextState ==
    perLast.op = "setPersona" => perLast.ret = merge(perLast.before, perLast.patch)

\* the same in file mode only
C34_FileReturnsNextState ==
    perLast.op = "setPersona" /\ ~perUseKV => perLast.ret = merge(perLast.before, perLast.patch)

\* a remember call has ended without throwing and its write got through
Remembered == memLast.op = "remember" /\ ~memLast.threw /\ memLast.putNet = "ok"

\* C35: after remember(c, text) whose write got through, whatever the read
\* gave, the stored list for c is the new entry followed by the entries
\* stored before the call, in their order
C35_RememberPrepends ==
    Remembered => StoredList(memLast.ch) = <<memLast.entry>> \o memLast.before

\* the same when the read got through as well
C35_RememberPrependsAfterRead ==
    Remembered /\ memLast.getNet = "ok" =>
        StoredList(memLast.ch) = <<memLast.entry>> \o memLast.before

\* a loadPDF call without force has just been made less than the TTL after
\* a load failed, no load having succeeded since
CalledAfterFailure ==
    /\ tool.pdf.last.op = "loadPDF" /\ ~tool.pdf.last.force
    /\ tool.pdf.since # NoTimer /\ tool.pdf.since <= tool.pdf.last.at
    /\ tool.pdf.last.at - tool.pdf.since < PDF_TTL

\* C36: a loadPDF call without force made within the TTL after a failed load
\* does not fetch, and the chunks of the last successful load stay in place
\* through failures
C36_NoHammering ==
    /\ CalledAfterFailure => ~tool.pdf.last.fetched
    /\ tool.pdf.since # NoTimer /\ tool.pdf.good # {} => tool.pdf.chunks = tool.pdf.good

\* the part about the chunks alone
C36_ChunksKept ==
    tool.pdf.since # NoTimer /\ tool.pdf.good # {} => tool.pdf.chunks = tool.pdf.good

\* resetPersona was the operation invoked last, its write has reached Redis,
\* and no write is in flight any more
ResetSettled == race.on /\ race.lastOp = "reset" /\ race.resetLanded /\ perTasks = {}

\* C37: when resetPersona(c) was invoked after setPersona(c, patch) and
\* nothing was invoked later, the persisted record is the default once all
\* writes have completed
C37_ResetWins ==
    ResetSettled =>
        /\ perKeyFor("c1") \in DOMAIN kvRemote
        /\ kvRemote[perKeyFor("c1")].val = DEFAULT

\* the record of c after a patch is applied to the store as it is: every
\* field the patch does not set keeps the value it has (the default when c
\* has no record)
PatchedOver(db, c, patch) ==
    [f \in DOMAIN DEFAULT |->
        IF f \in DOMAIN patch THEN patch[f]
        ELSE IF c \in DOMAIN db THEN db[c][f] ELSE DEFAULT[f]]

\* db2 differs from db1 in the value of c alone
OnlyChanged(db1, db2, c) ==
    /\ c \in DOMAIN db2
    /\ DOMAIN db2 = (DOMAIN db1) \cup {c}
    /\ \A x \in (DOMAIN db1) \ {c} : db2[x] = db1[x]

\* the step is one whole setPersona or resetPersona applied to the persona
\* store: one record becomes the default, or its patched successor
PersonaOpStep ==
    \E c \in PerChannels :
       /\ OnlyChanged(perDb, perDb', c)
       /\ \/ perDb'[c] = DEFAULT
          \/ \E patch \in RacePatches : perDb'[c] = PatchedOver(perDb, c, patch)

\* the step is one whole remember or forget applied to the memory store: one
\* list gets a new entry in front, or loses one entry
MemoryOpStep ==
    \E c \in MemChannels :
       /\ OnlyChanged(memDb, memDb', c)
       /\ \/ \E text \in MemTexts :
                memDb'[c] = <<[id |-> now, text |-> text, at |-> now]>> \o dbList(memDb, c)
          \/ \E i \in 1..Len(dbList(memDb, c)) :
                memDb'[c] = SubSeq(memDb[c], 1, i - 1) \o SubSeq(memDb[c], i + 1, Len(memDb[c]))

\* C38: in file mode no operation is ever suspended between its read and its
\* write, and every step that changes a store is one whole operation applied
\* to the store as the previous operations left it, so that the store is
\* always the result of the operations in the order of their invocation
C38_FileOpsAtomic ==
    /\ [](~perUseKV /\ ~memUseKV => perTasks = {} /\ memCall.pc = "idle")
    /\ [][~perUseKV /\ ~memUseKV =>
             /\ perDb' # perDb => PersonaOpStep /\ memDb' = memDb
             /\ memDb' # memDb => MemoryOpStep /\ perDb' = perDb]_vars

\* two patches on different fields of one channel are both in its record,
\* and a channel holds two remembered entries
C38_Witness ==
    /\ ~perUseKV /\ ~memUseKV
    /\ "c1" \in DOMAIN perDb /\ perDb["c1"].humor = 1 /\ perDb["c1"].snark = 2
    /\ Len(dbList(memDb, "c1")) = 2

\* the timestamp of the record under health:heartbeat
StoredTs(remote) == JSONparse(remote[HEARTBEAT_KEY].val).val.ts

C40_BackendsAgree ==
    SoloEnded /\ cacheLast.why \in {"hit", "computed"} =>
        /\ cacheLast.why = "hit" <=> cacheLast.solo.expect.kind = "hit"
        /\ cacheLast.why = "hit" => cacheLast.ret = cacheLast.solo.expect.val

\* the same of the file backend alone
C40_FileAgrees ==
    SoloEnded /\ ~cacheUseKV /\ cacheLast.why \in {"hit", "computed"} =>
        /\ cacheLast.why = "hit" <=> cacheLast.solo.expect.kind = "hit"
        /\ cacheLast.why = "hit" => cacheLast.ret = cacheLast.solo.expect.val

====
